---- MODULE Spec2Model ----
(***************************************************************************)
(* rawhexdump: the raw-terminal viewing engine.                            *)
(*                                                                         *)
(* The model follows src/src/raw_terminal.c (terminal, outputs, SIGWINCH   *)
(* handler, event loop) linked with the int-returning file module of       *)
(* src/unnamed/part_001 (file cursor, encoded reads) and with the queue of  *)
(* messages of src/src/errors.c.                                           *)
(*                                                                         *)
(* The main program advances one step at a time (pc); the SIGWINCH handler *)
(* is one atomic action that may run between any two steps of the main     *)
(* program, as the signal may be delivered at any instruction boundary.    *)
(*                                                                         *)
(* Spec is the viewer.  The other specifications take one part on its own: *)
(* MoveSpec file_move, ReadSpec the encoded reads, HexSpec the hexadecimal *)
(* text, ErrSpec the queue of messages, FrameSpec the text written by      *)
(* term_loop, LifeSpec the calls of main and the functions run at exit.    *)
(* A call of error_queue is taken to return: the exit() it makes when its  *)
(* own malloc fails is followed in ErrSpec only.                           *)
(***************************************************************************)
EXTENDS Integers, Sequences, FiniteSets, TLC

VARIABLES
    file,             \* struct file_tag: state, len, and the position indicator of file.h
    term,             \* struct terminal_tag: active_output, screen_rows, screen_cols
    output,           \* output_formhex, output_formchar, output_char: pos, row_len
    sigwinch_state,   \* sigwinch.state
    term_is_in_loop,  \* term_is_in_loop
    pc,               \* position of the main program
    keypress,         \* term_loop: keypress
    ret,              \* term_loop: ret
    y,                \* term_screen_prepare_rows: y
    bytes,            \* term_screen_prepare_rows: bytes
    ab,               \* term_screen_refresh: the frame composed in ab so far
    resize_failed,    \* a handler invocation failed while term_loop was executing
    term_is_init,     \* term_is_init
    errors_queue,     \* errors_queue: the messages queued, oldest first
    env,              \* outside the program: the terminal's attributes, the tcsetattr()
                      \* and fclose() calls made, the functions registered with atexit()
    written,          \* FrameSpec: the text of the write() made last; HexSpec: the text
                      \* the encoded read appended
    faults,           \* failures of the environment so far (ioctl, allocation, read, write)
    last              \* the step taken last: operation, inputs and outcome

vars == <<file, term, output, sigwinch_state, term_is_in_loop, pc, keypress, ret, y, bytes,
          ab, resize_failed, term_is_init, errors_queue, env, written, faults, last>>

\* what a step leaves alone when it neither queues a message nor is part of
\* term_init, term_disable_raw_mode or the exit of the process
life_vars == <<term_is_init, errors_queue, env, written>>

----------------------------------------------------------------------------
(* Bounds of the model *)

\* largest file length
MaxLen == 10

\* largest relative move tried on file_move
MaxMove == 12

\* most failures of the environment in one run
MaxFaults == 1

\* file lengths a run may open
FileLens == {0, MaxLen}

\* rows and columns ioctl(TIOCGWINSZ) may report; 0 is rejected by term_get_win_size
WinRows == {0, 4}
WinCols == {0, 2, 13, 15}

----------------------------------------------------------------------------
(* Program constants *)

FORMHEX  == "FORMHEX"
FORMCHAR == "FORMCHAR"
CHAR     == "CHAR"
OutputIds == {FORMHEX, FORMCHAR, CHAR}

\* the bytes term_process_keypress tells apart (letters in either case)
KEY_QUIT  == "ctrl_q"
KEY_UP    == "w"
KEY_DOWN  == "s"
KEY_PGUP  == "a"
KEY_PGDN  == "d"
KEY_HEX   == "h"
KEY_FCHAR == "c"
KEY_CHAR  == "ctrl_c"
KEY_OTHER == "other"
Keys == {KEY_QUIT, KEY_UP, KEY_DOWN, KEY_PGUP, KEY_PGDN, KEY_HEX, KEY_FCHAR, KEY_CHAR, KEY_OTHER}

Min(a, b) == IF a < b THEN a ELSE b

----------------------------------------------------------------------------
(* file module: the position indicator of the stream file.h *)

\* fseek(file.h, off, SEEK_SET / SEEK_CUR): fails (-1) and leaves the indicator
\* alone when the resulting offset is negative; may go past the end of the file
fseek(f, target) ==
    IF target < 0
    THEN [ret |-> -1, file |-> f]
    ELSE [ret |-> 0, file |-> [f EXCEPT !.pos = target]]

file_tell(f) == f.pos

file_seek_set(f, b) ==
    LET r == fseek(f, b)
    IN  IF r.ret = -1 THEN [ret |-> 1, file |-> r.file] ELSE [ret |-> 0, file |-> r.file]

file_move_unchecked(f, b) ==
    LET r == fseek(f, file_tell(f) + b)
    IN  IF r.ret = -1
        THEN [ret |-> 0, file |-> fseek(f, 0).file]
        ELSE [ret |-> 0, file |-> r.file]

file_move_clamp(f, b) ==
    LET pos == file_tell(f)
    IN  IF pos + b > f.len
        THEN [ret |-> 0, file |-> [f EXCEPT !.pos = f.len]]
        ELSE LET r == fseek(f, pos + b)
             IN  IF r.ret = -1
                 THEN [ret |-> 0, file |-> fseek(f, 0).file]
                 ELSE [ret |-> 0, file |-> r.file]

file_move_fail_below(f, b) ==
    LET pos == file_tell(f)
    IN  IF pos + b >= f.len
        THEN [ret |-> 0, file |-> f]
        ELSE LET r == fseek(f, pos + b)
             IN  IF r.ret = -1
                 THEN [ret |-> 1, file |-> r.file]
                 ELSE [ret |-> 0, file |-> r.file]

file_move_gt(f, b) ==
    LET pos == file_tell(f)
    IN  IF pos + b > f.len
        THEN [ret |-> 0, file |-> f]
        ELSE LET r == fseek(f, pos + b)
             IN  IF r.ret = -1
                 THEN [ret |-> 0, file |-> fseek(f, 0).file]
                 ELSE [ret |-> 0, file |-> r.file]

\* int file_move(const long int bytes)
file_move(f, b) ==
    LET pos == file_tell(f)
    IN  IF pos + b >= f.len
        THEN [ret |-> 0, file |-> f]
        ELSE LET r == fseek(f, pos + b)
             IN  IF r.ret = -1
                 THEN [ret |-> 0, file |-> fseek(f, 0).file]
                 ELSE [ret |-> 0, file |-> r.file]

file_move_uchar_checked(f, b) ==
    LET pos == file_tell(f)
    IN  IF pos + b >= f.len
        THEN [ret |-> 0, file |-> f]
        ELSE LET r == fseek(f, pos + b)
             IN  IF r.ret = -1
                 THEN [ret |-> 0, file |-> fseek(f, 0).file]
                 ELSE [ret |-> 0, file |-> r.file]

\* unsigned char file_move(const long int bytes) of src/src/file.c, the file module
\* that raw_terminal.c is not linked with
file_move_uchar(f, b) ==
    LET r == fseek(f, file_tell(f) + b)
    IN  IF r.ret = -1
        THEN [ret |-> 0, file |-> fseek(f, 0).file]
        ELSE [ret |-> 0, file |-> r.file]

\* Outcomes of one encoded read that the allocator decides:
\*   "none"      every allocation succeeds
\*   "read_pre"  malloc fails before fread: nothing is consumed
\*   "read_post" an allocation fails after fread: the bytes are consumed
ReadFaults == {"none", "read_pre", "read_post"}

\* file_append_formatted_hexs / file_append_formatted_chars / file_append_chars:
\* the three differ in the text appended, not in the bytes consumed
file_append(f, len, fault) ==
    LET n == IF f.pos >= f.len THEN 0 ELSE Min(len, f.len - f.pos)
    IN  IF len = 0 \/ fault = "read_pre"
        THEN [ret |-> 0, file |-> f]
        ELSE IF fault = "read_post"
        THEN [ret |-> 0, file |-> [f EXCEPT !.pos = f.pos + n]]
        ELSE [ret |-> n, file |-> [f EXCEPT !.pos = f.pos + n]]

----------------------------------------------------------------------------
(* file: the hexadecimal text of file_append_formatted_hexs.  A byte is a number *)
(* in 0..255, a character its code, a text a sequence of codes.                  *)

\* temp.b[i]: the byte b as a char, which the build makes signed or unsigned
AsChar(b, signed) == IF signed /\ b >= 128 THEN b - 256 ELSE b

\* ((c) & 0xF0) >> 4 and (c) & 0x0F on the int that c is promoted to
HighNibble(c) == (c % 256) \div 16
LowNibble(c) == c % 16

CHAR_TO_HEX_UPPER_unmasked(c) ==
    IF c \div 16 < 10 THEN (c \div 16) + 48 ELSE (c \div 16) + 65 - 10

\* #define CHAR_TO_HEX_UPPER(c): '\xA' is 10, '0' is 48, 'A' is 65
CHAR_TO_HEX_UPPER(c) ==
    IF HighNibble(c) < 10 THEN HighNibble(c) + 48 ELSE HighNibble(c) + 65 - 10

\* #define CHAR_TO_HEX_LOWER(c)
CHAR_TO_HEX_LOWER(c) ==
    IF LowNibble(c) < 10 THEN LowNibble(c) + 48 ELSE LowNibble(c) + 65 - 10

\* temp_long after the loop over i, for the chars b of temp: 3 * n - 1 characters
RECURSIVE HexText(_)
HexText(b) ==
    IF Len(b) = 0 THEN <<>>
    ELSE IF Len(b) = 1 THEN <<CHAR_TO_HEX_UPPER(b[1]), CHAR_TO_HEX_LOWER(b[1])>>
    ELSE <<CHAR_TO_HEX_UPPER(b[1]), CHAR_TO_HEX_LOWER(b[1]), 32>> \o HexText(Tail(b))

\* size_t file_append_formatted_hexs(abuf_t* ab, const size_t len) on a file whose
\* bytes are f.b: text is what the call appends to ab
file_append_formatted_hexs(f, len, fault, signed) ==
    LET r == file_append(f, len, fault)
        b == [i \in 1..r.ret |-> AsChar(f.b[f.pos + i], signed)]
    IN  [ret |-> r.ret, file |-> r.file,
         text |-> IF r.ret = 0 THEN <<>> ELSE HexText(b)]

----------------------------------------------------------------------------
(* raw_terminal: outputs *)

\* the output whose "pos" an output shares (FORMHEX and FORMCHAR share, CHAR is alone)
Shared(id) == IF id = FORMHEX THEN FORMCHAR ELSE IF id = FORMCHAR THEN FORMHEX ELSE CHAR

term_output_save_all(f, t, o) ==
    [ret |-> 0, output |-> [id \in OutputIds |-> [o[id] EXCEPT !.pos = file_tell(f)]]]

term_output_save_unshared(f, t, o) ==
    [ret |-> 0, output |-> [o EXCEPT ![t.active_output].pos = file_tell(f)]]

\* static int term_output_save(void)
term_output_save(f, t, o) ==
    LET curr_pos == file_tell(f)
        o1 == [o EXCEPT ![t.active_output].pos = curr_pos]
    IN  [ret |-> 0, output |-> [o1 EXCEPT ![Shared(t.active_output)].pos = curr_pos]]

\* static int term_output_change(const term_output_id_t output_id)
term_output_change(f, t, o, output_id) ==
    LET s  == term_output_save(f, t, o)
        t1 == [t EXCEPT !.active_output = output_id]
        k  == file_seek_set(f, s.output[output_id].pos)
    IN  IF k.ret = 1
        THEN [ret |-> 1, file |-> k.file, term |-> t1, output |-> s.output]
        ELSE [ret |-> 0, file |-> k.file, term |-> t1, output |-> s.output]

\* what ioctl(STDOUT_FILENO, TIOCGWINSZ, &ws) may answer
WinSizes == {[ok |-> FALSE, row |-> 0, col |-> 0]}
            \cup {[ok |-> TRUE, row |-> r, col |-> k] : r \in WinRows, k \in WinCols}

\* the answers term_get_win_size rejects
WinFail(ws) == ~ws.ok \/ ws.row = 0 \/ ws.col = 0

\* the answers the environment may still give, and the choices it may still make
WinSizesLeft == IF faults < MaxFaults THEN WinSizes ELSE {ws \in WinSizes : ~WinFail(ws)}
Failing == IF faults < MaxFaults THEN BOOLEAN ELSE {FALSE}

term_get_win_size_store_first(t, ws) ==
    IF WinFail(ws)
    THEN [ret |-> 1, term |-> [t EXCEPT !.screen_rows = ws.row, !.screen_cols = ws.col]]
    ELSE [ret |-> 0, term |-> [t EXCEPT !.screen_rows = ws.row, !.screen_cols = ws.col]]

\* static int term_get_win_size(void)
term_get_win_size(t, ws) ==
    IF WinFail(ws)
    THEN [ret |-> 1, term |-> t]
    ELSE [ret |-> 0, term |-> [t EXCEPT !.screen_rows = ws.row, !.screen_cols = ws.col]]

\* pos - (pos % row_len) on long int.  With row_len = 0 the remainder is undefined
\* behaviour: the build either traps (integer divide fault, e.g. x86) or yields the
\* dividend as remainder (e.g. AArch64, RISC-V); UbOutcomes names the two.
UbOutcomes == {"trap", "value"}

Realign(pos, row_len) ==
    IF row_len = 0 THEN pos - pos ELSE pos - (pos % row_len)

RowLens(cols) == [id \in OutputIds |-> IF id = CHAR THEN cols ELSE cols \div 3]

\* static int term_output_adjust_after_sigwinch(void)
term_output_adjust_after_sigwinch(f, t, o, ws, ub) ==
    LET g == term_get_win_size(t, ws)
    IN  IF g.ret # 0
        THEN [ret |-> 1, trap |-> FALSE, file |-> f, term |-> g.term, output |-> o]
        ELSE
        LET s  == term_output_save(f, g.term, o)
            rl == RowLens(g.term.screen_cols)
            o2 == [id \in OutputIds |->
                     [pos |-> Realign(s.output[id].pos, rl[id]), row_len |-> rl[id]]]
            k  == file_seek_set(f, o2[g.term.active_output].pos)
        IN  IF (\E id \in OutputIds : rl[id] = 0) /\ ub = "trap"
            THEN [ret |-> 0, trap |-> TRUE, file |-> f, term |-> g.term, output |-> s.output]
            ELSE [ret |-> k.ret, trap |-> FALSE, file |-> k.file, term |-> g.term, output |-> o2]

----------------------------------------------------------------------------
(* raw_terminal: composing and writing a frame *)

\* Outcomes of one pass of the row loop that the allocator decides: an allocation
\* failing after fread in the encoded read, and a failing ab_append of the erase-line
\* or of the line break
RowFaults == {"none", "read_post", "erase", "newline"}

\* one pass of the loop of term_screen_prepare_rows, for row yy with bb bytes so far;
\* ret = 1 when the function returns 1 from inside the loop
prepare_row(f, t, o, yy, bb, fault) ==
    LET r == file_append(f, o[t.active_output].row_len,
                         IF fault \in ReadFaults THEN fault ELSE "none")
    IN  [ret   |-> IF fault = "erase" \/ (fault = "newline" /\ yy < t.screen_rows - 1)
                   THEN 1 ELSE 0,
         file  |-> r.file,
         y     |-> yy + 1,
         bytes |-> bb + r.ret,
         torn  |-> \/ fault = "erase"
                   \/ fault = "newline" /\ yy < t.screen_rows - 1
                   \/ r.file.pos - f.pos # r.ret]

\* the rewinding file_move that ends term_screen_prepare_rows
prepare_rewind(f, bb) ==
    LET m == file_move(f, -1 * bb)
    IN  [ret |-> m.ret, file |-> m.file]

\* where, if anywhere, an allocation or the write fails during one refresh that the
\* handler runs: in the first ab_append, in the write, or in a row (an allocation
\* after fread, or the ab_append of the erase-line)
NoFault == [at |-> "none", y |-> 0, kind |-> "none"]
RefreshFaults(rows) ==
    {NoFault}
    \cup {[at |-> a, y |-> 0, kind |-> "none"] : a \in {"top1", "write"}}
    \cup {[at |-> "rows", y |-> yy, kind |-> k] : yy \in 0..(rows - 1), k \in {"read_post", "erase"}}

\* the failure a refresh fault stands for: of an allocation, or of the write
FaultClass(rf) == IF rf.at = "none" THEN "none" ELSE IF rf.at = "write" THEN "write" ELSE "alloc"

\* static int term_screen_prepare_rows(abuf_t* ab), run from row yy to its return
RECURSIVE term_screen_prepare_rows(_, _, _, _, _, _)
term_screen_prepare_rows(f, t, o, yy, bb, rf) ==
    IF yy < t.screen_rows
    THEN LET p == prepare_row(f, t, o, yy, bb,
                              IF rf.at = "rows" /\ rf.y = yy THEN rf.kind ELSE "none")
         IN  IF p.ret = 1
             THEN [ret |-> 1, file |-> p.file, torn |-> TRUE]
             ELSE LET q == term_screen_prepare_rows(p.file, t, o, p.y, p.bytes, rf)
                  IN  [q EXCEPT !.torn = p.torn \/ q.torn]
    ELSE LET m == prepare_rewind(f, bb)
         IN  [ret |-> m.ret, file |-> m.file, torn |-> FALSE]

\* the frame a write() of ab hands to the terminal: "complete" when every row was
\* composed, "partial" when the composition of a row was cut short
Frame(torn) == IF torn THEN "partial" ELSE "complete"

\* static int term_screen_refresh(void), run as a whole (as the handler runs it);
\* wrote counts the write() calls that reached the terminal, frame is what they carried
term_screen_refresh(f, t, o, rf) ==
    IF rf.at = "top1"
    THEN [ret |-> 1, file |-> f, wrote |-> 0, frame |-> "none"]
    ELSE LET p == term_screen_prepare_rows(f, t, o, 0, 0, rf)
         IN  IF rf.at = "top2"
             THEN [ret |-> 1, file |-> p.file, wrote |-> 0, frame |-> "none"]
             ELSE IF rf.at = "write"
             THEN [ret |-> 1, file |-> p.file, wrote |-> 0, frame |-> "none"]
             ELSE [ret |-> 0, file |-> p.file, wrote |-> 1, frame |-> Frame(p.torn)]

----------------------------------------------------------------------------
(* raw_terminal: the SIGWINCH handler *)

\* static void sigwinch_handler(int sig), sig = SIGWINCH
sigwinch_handler(f, t, o, sw, inloop, ws, ub, rf) ==
    LET a == term_output_adjust_after_sigwinch(f, t, o, ws, ub)
    IN  IF a.trap
        THEN [trap |-> TRUE, file |-> a.file, term |-> a.term, output |-> a.output,
              sigwinch_state |-> sw, wrote |-> 0, frame |-> "none"]
        ELSE IF a.ret # 0
        THEN [trap |-> FALSE, file |-> a.file, term |-> a.term, output |-> a.output,
              sigwinch_state |-> "ERROR", wrote |-> 0, frame |-> "none"]
        ELSE IF inloop
        THEN LET r == term_screen_refresh(a.file, a.term, a.output, rf)
             IN  [trap |-> FALSE, file |-> r.file, term |-> a.term, output |-> a.output,
                  sigwinch_state |-> IF r.ret # 0 THEN "ERROR" ELSE "OK", wrote |-> r.wrote,
                  frame |-> r.frame]
        ELSE [trap |-> FALSE, file |-> a.file, term |-> a.term, output |-> a.output,
              sigwinch_state |-> "OK", wrote |-> 0, frame |-> "none"]

----------------------------------------------------------------------------
(* errors: the queue of messages *)

\* #define RHD_ERRORS_QUEUE_MAX 64
RHD_ERRORS_QUEUE_MAX == 64

error_queue_unbounded(q, m, mfail) ==
    IF mfail
    THEN [exit |-> TRUE, queue |-> q]
    ELSE [exit |-> FALSE, queue |-> Append(q, m)]

\* void error_queue(const char* args, ...): q the queue, m the formatted message,
\* mfail whether malloc of the copy fails, in which case the function calls exit()
error_queue(q, m, mfail) ==
    IF Len(q) >= RHD_ERRORS_QUEUE_MAX
    THEN [exit |-> FALSE, queue |-> q]
    ELSE IF mfail
    THEN [exit |-> TRUE, queue |-> q]
    ELSE [exit |-> FALSE, queue |-> Append(q, m)]

\* the queue after a call error_queue(m) that returns
Queued(q, m) == error_queue(q, m, FALSE).queue

\* the queue after the calls error_queue(ms[1]), error_queue(ms[2]), ... have returned
RECURSIVE QueuedAll(_, _)
QueuedAll(q, ms) ==
    IF Len(ms) = 0 THEN q ELSE QueuedAll(Queued(q, Head(ms)), Tail(ms))

\* void error_flush(void): prints every message and empties the queue
error_flush(q) == [printed |-> q, queue |-> <<>>]

----------------------------------------------------------------------------
(* The terminal's attributes (struct termios) *)

\* the flags term_init clears or sets, and one flag of each word it leaves alone
IflagOff == {"BRKINT", "ICRNL", "INLCR", "INPCK", "ISTRIP", "IXON"}
OflagOff == {"OPOST"}
LflagOff == {"ECHO", "ICANON", "IEXTEN", "ISIG"}
CflagBits == {"CS8", "CREAD", "PARENB"}

\* a terminal in its usual line-buffered state, and one whose echo is off
Cooked ==
    [iflag |-> {"ICRNL", "IXON", "IUTF8"}, oflag |-> {"OPOST", "ONLCR"},
     cflag |-> {"CS8", "CREAD"}, lflag |-> {"ECHO", "ICANON", "IEXTEN", "ISIG", "ECHOE"},
     vmin |-> 1, vtime |-> 0]
NoEcho == [Cooked EXCEPT !.lflag = @ \ {"ECHO"}]
TtyInit == {Cooked, NoEcho}

\* term.initial_state in static storage: all bits zero
ZeroAttrs ==
    [iflag |-> {}, oflag |-> {}, cflag |-> {}, lflag |-> {}, vmin |-> 0, vtime |-> 0]

\* the local "raw" of term_init, from the snapshot a
raw(a) ==
    [iflag |-> a.iflag \ IflagOff,
     oflag |-> a.oflag \ OflagOff,
     cflag |-> a.cflag \cup (CflagBits \ {"CS8"}),
     lflag |-> a.lflag \ LflagOff,
     vmin  |-> 0,
     vtime |-> 1]

\* the world outside the program when main starts, the terminal having the attributes a:
\*   tty      the attributes of the terminal
\*   tty0     the attributes the terminal had when the process started
\*   raw      the successful tcsetattr() calls that applied the local "raw"
\*   restore  the outcome of every tcsetattr() call made with term.initial_state
\*   fclose   the fclose() calls made on file.h since it was opened
\*   atexit   the functions registered with atexit(), in order of registration
\*   ran      how many of them have run
Env(a) ==
    [tty |-> a, tty0 |-> a, raw |-> 0, restore |-> <<>>, fclose |-> 0, atexit |-> <<>>,
     ran |-> 0]

\* tcgetattr(STDIN_FILENO, ...) and tcsetattr(STDIN_FILENO, TCSAFLUSH, a) when they
\* succeed; a call that fails changes nothing
tcgetattr(e) == e.tty
tcsetattr(e, a) == [e EXCEPT !.tty = a]

\* the terminal reads byte by byte with the read timeout term_init sets
IsRaw(a) == "ICANON" \notin a.lflag /\ a.vmin = 0 /\ a.vtime = 1

----------------------------------------------------------------------------
(* raw_terminal: the text of a frame.  A text is a sequence of pieces: an escape *)
(* sequence, a line break, or what one encoded read appended, which is written  *)
(* as the offset and the number of the bytes it encodes.                        *)

\* #define RHD_TERM_VT100_...: ESC stands for the character \x1b
RHD_TERM_VT100_ERASE_LINE   == "ESC[0K"
RHD_TERM_VT100_CUR_TOP_LEFT == "ESC[1;1H"
RHD_TERM_VT100_CUR_HIDE     == "ESC[?25l"
RHD_TERM_VT100_CUR_SHOW     == "ESC[?25h"
RHD_TERM_VT100_ERASE_SCREEN == "ESC[2J"
CRLF == "\r\n"

\* the piece that is the string s, and the piece an encoded read of n bytes from
\* offset from appends
Ctl(s) == [piece |-> s, from |-> 0, n |-> 0]
Encoded(from, n) == [piece |-> "bytes", from |-> from, n |-> n]

\* what term_screen_prepare_rows appends to ab from row yy on
RECURSIVE rows_text(_, _, _, _, _)
rows_text(f, t, o, yy, rf) ==
    IF yy < t.screen_rows
    THEN LET fault == IF rf.at = "rows" /\ rf.y = yy THEN rf.kind ELSE "none"
             p == prepare_row(f, t, o, yy, 0, fault)
             read == IF p.bytes > 0 THEN <<Encoded(file_tell(f), p.bytes)>> ELSE <<>>
         IN  IF fault = "erase"
             THEN read
             ELSE IF p.ret = 1
             THEN read \o <<Ctl(RHD_TERM_VT100_ERASE_LINE)>>
             ELSE read \o <<Ctl(RHD_TERM_VT100_ERASE_LINE)>>
                       \o (IF yy < t.screen_rows - 1 THEN <<Ctl(CRLF)>> ELSE <<>>)
                       \o rows_text(p.file, t, o, yy + 1, rf)
    ELSE <<>>

term_screen_refresh_text_hide_show(f, t, o, rf) ==
    <<Ctl(RHD_TERM_VT100_CUR_HIDE), Ctl(RHD_TERM_VT100_CUR_TOP_LEFT)>>
        \o rows_text(f, t, o, 0, rf)
        \o <<Ctl(RHD_TERM_VT100_CUR_TOP_LEFT), Ctl(RHD_TERM_VT100_CUR_SHOW)>>

\* ab when term_screen_refresh hands it to write()
term_screen_refresh_text(f, t, o, rf) ==
    <<Ctl(RHD_TERM_VT100_CUR_TOP_LEFT)>>
        \o rows_text(f, t, o, 0, rf)
        \o <<Ctl(RHD_TERM_VT100_CUR_TOP_LEFT)>>

----------------------------------------------------------------------------
(* raw_terminal: the messages queued when a call fails *)

\* the messages term_screen_refresh and term_screen_prepare_rows queue in a refresh
\* the handler runs, for the failure rf
RefreshMessages(rf) ==
    CASE rf.at = "top1" -> <<"ERROR: Function ab_append() failed!">>
      [] rf.at = "write" -> <<"ERROR: Function write() failed!">>
      [] rf.at = "rows" /\ rf.kind = "erase" -> <<"ERROR: Function ab_append() failed!">>
      [] OTHER -> <<>>

\* the messages queued in one invocation of the handler that does not trap
HandlerMessages(ws, inloop, rf) ==
    IF WinFail(ws)
    THEN <<"ERROR: Function ioctl() failed!", "ERROR: Couldn't get terminal window size!">>
    ELSE IF inloop
    THEN RefreshMessages(rf)
    ELSE <<>>

\* the messages queued by a step of term_loop and the functions it calls, for the
\* failure met in that step
LoopMessages(step, fault) ==
    CASE fault = "none" -> <<>>
      [] step \in {"loop_enter", "loop_end"} -> <<"ERROR: Function write() failed!">>
      [] step = "loop_top" ->
           <<"ERROR: SIGWINCH signal was not handled correctly!">>
      [] step = "refresh" /\ fault = "write" ->
           <<"ERROR: Function write() failed!", "ERROR: Couldn't refresh screen!">>
      [] step = "refresh" ->
           <<"ERROR: Function ab_append() failed!", "ERROR: Couldn't refresh screen!">>
      [] step = "read_key" ->
           <<"ERROR: Couldn't read keypress!", "ERROR: Couldn't process keypress!">>
      [] step = "keypress" -> <<"ERROR: Couldn't process keypress!">>
      [] step = "screen_clear" ->
           <<"ERROR: Function write() failed!", "ERROR: Couldn't clear screen!">>

----------------------------------------------------------------------------
(* file: open and close *)

\* int file_open(const char* filename, const char* modes): n the length of the file
\* found, fail whether fopen returns NULL
file_open(f, e, n, fail) ==
    IF f.state = "OPEN"
    THEN [ret |-> 0, file |-> f, env |-> e]
    ELSE IF fail
    THEN [ret |-> 1, file |-> f, env |-> e]
    ELSE [ret |-> 0, file |-> [state |-> "OPEN", len |-> n, pos |-> 0],
          env |-> [e EXCEPT !.atexit = Append(@, "file"), !.fclose = 0]]

\* int file_close(void): fail whether fclose returns EOF
file_close(f, e, fail) ==
    IF f.state = "CLOSE"
    THEN [ret |-> 0, file |-> f, env |-> e]
    ELSE LET e1 == [e EXCEPT !.fclose = @ + 1]
         IN  IF fail
             THEN [ret |-> 1, file |-> f, env |-> e1]
             ELSE [ret |-> 0, file |-> [f EXCEPT !.state = "CLOSE"], env |-> e1]

----------------------------------------------------------------------------
(* raw_terminal: term_init and term_disable_raw_mode *)

\* the calls of term_init that the environment may fail
InitFaults == {"none", "fopen", "tcgetattr", "tcsetattr"}

\* term_init from the return of raise(SIGWINCH) on: same is the outcome that changes
\* nothing, e1 the environment after both atexit() calls, h what the handler did,
\* msgs the queue it left
term_init_raised(same, e1, h, msgs, tf) ==
    LET at_raise == [same EXCEPT !.file = h.file, !.term = h.term, !.output = h.output,
                                 !.sigwinch_state = h.sigwinch_state, !.env = e1,
                                 !.wrote = h.wrote, !.queue = msgs]
        snap == [h.term EXCEPT !.initial_state = tcgetattr(e1)]
    IN  IF h.trap
        THEN [at_raise EXCEPT !.trap = TRUE]
        ELSE IF h.sigwinch_state = "ERROR"
        THEN [at_raise EXCEPT !.ret = 5]
        ELSE IF tf = "tcgetattr"
        THEN [at_raise EXCEPT !.ret = 6]
        ELSE IF tf = "tcsetattr"
        THEN [at_raise EXCEPT !.ret = 7, !.term = snap]
        ELSE [at_raise EXCEPT !.term = snap,
                              !.env = [tcsetattr(e1, raw(snap.initial_state))
                                          EXCEPT !.raw = @ + 1],
                              !.init = TRUE]

\* term_init from the return of file_open on: opened is what file_open answered
term_init_opened(same, opened, t, o, loop, q, ws, ub, tf) ==
    IF opened.ret # 0
    THEN [same EXCEPT !.ret = 1]
    ELSE term_init_raised(same, [opened.env EXCEPT !.atexit = Append(@, "term")],
                          sigwinch_handler(opened.file, [t EXCEPT !.active_output = FORMHEX],
                                           o, "OK", loop, ws, ub, NoFault),
                          QueuedAll(q, HandlerMessages(ws, loop, NoFault)), tf)

\* int term_init(const char* filename).  init is term_is_init, q the error queue, e the
\* environment, loop is term_is_in_loop; n, ws, ub, tf are what the environment
\* answers: the length of the file, the window size, the outcome of a division by
\* zero, the call that fails.  trap: the process was killed inside the handler that
\* raise() runs
term_init(init, f, t, o, sw, loop, q, e, n, ws, ub, tf) ==
    LET same == [ret |-> 0, trap |-> FALSE, init |-> init, file |-> f, term |-> t,
                 output |-> o, sigwinch_state |-> sw, queue |-> q, env |-> e, wrote |-> 0]
    IN  IF init
        THEN [same EXCEPT !.queue = Queued(q, "WARNING: Terminal is already initialized!")]
        ELSE term_init_opened(same, file_open(f, e, n, tf = "fopen"), t, o, loop, q, ws, ub, tf)

\* int term_disable_raw_mode(void): tfail whether tcsetattr fails, cfail whether
\* fclose fails
term_disable_raw_mode(init, f, t, q, e, tfail, cfail) ==
    LET same == [ret |-> 0, init |-> init, file |-> f, queue |-> q, env |-> e]
        e1 == [tcsetattr(e, t.initial_state) EXCEPT !.restore = Append(@, "ok")]
        c  == file_close(f, e1, cfail)
    IN  IF ~init
        THEN same
        ELSE IF tfail
        THEN [same EXCEPT !.ret = 1, !.env = [e EXCEPT !.restore = Append(@, "failed")]]
        ELSE IF c.ret # 0
        THEN [same EXCEPT !.ret = 2, !.file = c.file, !.env = c.env]
        ELSE [same EXCEPT !.file = c.file, !.env = c.env, !.queue = error_flush(q).queue,
                          !.init = FALSE]

term_at_exit_callback_unguarded(init, f, t, q, e, tfail, cfail) ==
    term_disable_raw_mode(TRUE, f, t, q, e, tfail, cfail)

\* static void at_exit_callback(void) of raw_terminal.c
term_at_exit_callback(init, f, t, q, e, tfail, cfail) ==
    IF init
    THEN term_disable_raw_mode(init, f, t, q, e, tfail, cfail)
    ELSE [ret |-> 0, init |-> init, file |-> f, queue |-> q, env |-> e]

\* static void at_exit_callback(void) of the file module
file_at_exit_callback(f, e, cfail) ==
    IF f.state = "OPEN"
    THEN file_close(f, e, cfail)
    ELSE [ret |-> 0, file |-> f, env |-> e]

----------------------------------------------------------------------------
(* The record of the step taken last *)

\* op: the step; arg: its argument (the relative move, the row_len of a key, the
\* bytes a row consumed); pos0: file_tell() before it (for the steps of one refresh:
\* before the refresh, or -1 once a SIGWINCH was handled during it); out0: the active
\* output before it; fault: the failure the environment injected; wrote: write()
\* calls that reached the terminal; frame: the frame they carried, if any; ok: the
\* step's own success; w0: for a key, and for a SIGWINCH handled while the loop is
\* blocked in term_read_key, the active output's row_len when the loop came to block
Step(op, arg, pos0, fault, wrote, ok) ==
    [op |-> op, arg |-> arg, pos0 |-> pos0, out0 |-> term.active_output,
     fault |-> fault, wrote |-> wrote, frame |-> "none", ok |-> ok, w0 |-> 0]

\* the active output's row_len when the loop came to block in term_read_key, for a
\* state in which it is blocked there
BlockedRowLen ==
    IF pc = "read_key" /\ last.op = "sigwinch"
    THEN last.w0
    ELSE output[term.active_output].row_len

\* the positions of the main program inside term_loop
LoopPcs == {"loop_top", "refresh", "rows", "refresh_end", "read_key", "quit", "loop_end"}

\* the steps of term_screen_refresh before its last one
RefreshOps == {"refresh_begin", "prepare_row", "prepare_rewind"}

\* file_tell() before the refresh in progress, -1 if a SIGWINCH came in between
RefreshPos0 == IF last.op \in RefreshOps THEN last.pos0 ELSE -1

----------------------------------------------------------------------------
(* Initial state: static storage before main calls term_init *)

Init ==
    /\ file = [state |-> "CLOSE", len |-> 0, pos |-> 0]
    /\ term = [active_output |-> "NULL", screen_rows |-> 0, screen_cols |-> 0,
               initial_state |-> ZeroAttrs]
    /\ output = [id \in OutputIds |-> [pos |-> 0, row_len |-> 0]]
    /\ sigwinch_state = "OK"
    /\ term_is_in_loop = FALSE
    /\ term_is_init = FALSE
    /\ errors_queue = <<>>
    /\ env = Env(Cooked)
    /\ written = <<>>
    /\ pc = "term_init"
    /\ keypress = "ACT"
    /\ ret = 0
    /\ y = 0
    /\ bytes = 0
    /\ ab = "empty"
    /\ resize_failed = FALSE
    /\ faults = 0
    /\ last = [op |-> "start", arg |-> 0, pos0 |-> 0, out0 |-> "NULL",
               fault |-> "none", wrote |-> 0, frame |-> "none", ok |-> TRUE, w0 |-> 0]

----------------------------------------------------------------------------
(* term_init: opens the file, installs the handler and raises SIGWINCH, which *)
(* runs the handler before raise() returns                                    *)

TermInit ==
    /\ pc = "term_init"
    /\ \E n \in FileLens, ws \in WinSizesLeft, ub \in UbOutcomes :
       \E tf \in (IF faults < MaxFaults /\ ~WinFail(ws) THEN InitFaults ELSE {"none"}) :
       \E r \in {term_init(term_is_init, file, term, output, sigwinch_state, term_is_in_loop,
                           errors_queue, env, n, ws, ub, tf)} :
             /\ file' = r.file
             /\ term' = r.term
             /\ output' = r.output
             /\ sigwinch_state' = r.sigwinch_state
             /\ term_is_init' = r.init
             /\ errors_queue' = r.queue
             /\ env' = r.env
             /\ ret' = r.ret
             /\ pc' = IF r.trap THEN "crashed"
                      ELSE IF r.ret # 0 THEN "exited"
                      ELSE "term_loop"
             /\ faults' = IF WinFail(ws) \/ (tf # "none" /\ ~r.trap) THEN faults + 1 ELSE faults
             /\ last' = Step("term_init", 0, 0,
                             IF r.trap THEN "trap"
                             ELSE IF WinFail(ws) THEN "ioctl"
                             ELSE tf,
                             r.wrote, ~r.trap /\ r.ret = 0)
    /\ UNCHANGED <<term_is_in_loop, keypress, y, bytes, ab, resize_failed, written>>

----------------------------------------------------------------------------
(* SIGWINCH delivered while the program runs.  A trap in the handler kills the *)
(* process: the main program stops where it is and its frame of                *)
(* term_screen_prepare_rows is gone.                                           *)

Sigwinch ==
    /\ pc \notin {"term_init", "exited", "crashed"}
    /\ \E ws \in WinSizesLeft :
       \E ub \in (IF ~WinFail(ws) /\ ws.col \div 3 = 0 THEN UbOutcomes ELSE {"value"}) :
       \E rf \in (IF ~WinFail(ws) /\ term_is_in_loop /\ faults < MaxFaults
                  THEN RefreshFaults(ws.row) ELSE {NoFault}) :
       \E h \in {sigwinch_handler(file, term, output, sigwinch_state, term_is_in_loop,
                                   ws, ub, rf)} :
             /\ file' = h.file
             /\ term' = h.term
             /\ output' = h.output
             /\ sigwinch_state' = h.sigwinch_state
             /\ errors_queue' = IF h.trap THEN errors_queue
                                ELSE QueuedAll(errors_queue,
                                               HandlerMessages(ws, term_is_in_loop, rf))
             /\ pc' = IF h.trap THEN "crashed" ELSE pc
             /\ y' = IF h.trap THEN 0 ELSE y
             /\ bytes' = IF h.trap THEN 0 ELSE bytes
             /\ ab' = IF h.trap THEN "empty" ELSE ab
             /\ resize_failed' = (resize_failed
                                   \/ (pc \in LoopPcs /\ ~h.trap /\ h.sigwinch_state = "ERROR"))
             /\ faults' = IF WinFail(ws) \/ (~h.trap /\ rf # NoFault) THEN faults + 1 ELSE faults
             /\ last' = [Step("sigwinch", 0, file.pos,
                             IF h.trap THEN "trap"
                             ELSE IF WinFail(ws) THEN "ioctl"
                             ELSE FaultClass(rf),
                             h.wrote, ~h.trap /\ h.sigwinch_state = "OK")
                            EXCEPT !.frame = h.frame,
                                   !.w0 = IF pc = "read_key" THEN BlockedRowLen ELSE 0]
    /\ UNCHANGED <<term_is_in_loop, keypress, ret>>
    /\ UNCHANGED <<term_is_init, env, written>>

----------------------------------------------------------------------------
(* term_loop *)

\* entry: the in-loop flag, then the cursor-hide write
LoopEnter ==
    /\ pc = "term_loop"
    /\ term_is_in_loop' = TRUE
    /\ keypress' = "ACT"
    /\ \E wfail \in Failing :
         IF wfail
         THEN /\ ret' = 5
              /\ pc' = "returned"
              /\ last' = Step("loop_enter", 0, file.pos, "write", 0, FALSE)
         ELSE /\ ret' = 0
              /\ pc' = "loop_top"
              /\ last' = Step("loop_enter", 0, file.pos, "none", 1, TRUE)
    /\ faults' = IF last'.fault = "none" THEN faults ELSE faults + 1
    /\ UNCHANGED <<file, term, output, sigwinch_state, y, bytes, ab, resize_failed>>
    /\ errors_queue' = QueuedAll(errors_queue, LoopMessages("loop_enter", last'.fault))
    /\ UNCHANGED <<term_is_init, env, written>>

LoopTop_no_poll ==
    /\ pc = "loop_top"
    /\ ret' = ret
    /\ pc' = IF keypress = "ACT" THEN "refresh" ELSE "read_key"
    /\ last' = Step("loop_top", 0, file.pos, "none", 0, TRUE)
    /\ UNCHANGED <<file, term, output, sigwinch_state, term_is_in_loop, keypress, y, bytes, faults, ab, resize_failed>>
    /\ UNCHANGED life_vars

LoopTop_redraw_always ==
    /\ pc = "loop_top"
    /\ IF sigwinch_state = "ERROR"
       THEN /\ ret' = 4
            /\ pc' = "loop_end"
            /\ last' = Step("loop_top", 0, file.pos, "none", 0, FALSE)
       ELSE /\ ret' = ret
            /\ pc' = "refresh"
            /\ last' = Step("loop_top", 0, file.pos, "none", 0, TRUE)
    /\ UNCHANGED <<file, term, output, sigwinch_state, term_is_in_loop, keypress, y, bytes, faults, ab, resize_failed>>
    /\ errors_queue' = QueuedAll(errors_queue, IF last'.ok THEN <<>> ELSE LoopMessages("loop_top", "sigwinch"))
    /\ UNCHANGED <<term_is_init, env, written>>

\* top of the do-while body: the poll of sigwinch.state, then the test of keypress
LoopTop ==
    /\ pc = "loop_top"
    /\ IF sigwinch_state = "ERROR"
       THEN /\ ret' = 4
            /\ pc' = "loop_end"
            /\ last' = Step("loop_top", 0, file.pos, "none", 0, FALSE)
       ELSE /\ ret' = ret
            /\ pc' = IF keypress = "ACT" THEN "refresh" ELSE "read_key"
            /\ last' = Step("loop_top", 0, file.pos, "none", 0, TRUE)
    /\ UNCHANGED <<file, term, output, sigwinch_state, term_is_in_loop, keypress, y, bytes, faults, ab, resize_failed>>
    /\ errors_queue' = QueuedAll(errors_queue, IF last'.ok THEN <<>> ELSE LoopMessages("loop_top", "sigwinch"))
    /\ UNCHANGED <<term_is_init, env, written>>

\* term_screen_refresh: the first ab_append, then entry of term_screen_prepare_rows
RefreshBegin ==
    /\ pc = "refresh"
    /\ \E afail \in Failing :
         IF afail
         THEN /\ ret' = 2
              /\ pc' = "loop_end"
              /\ UNCHANGED <<y, bytes, ab>>
              /\ last' = Step("refresh_begin", 0, file.pos, "top1", 0, FALSE)
         ELSE /\ ret' = ret
              /\ pc' = "rows"
              /\ y' = 0
              /\ bytes' = 0
              /\ ab' = "ok"
              /\ last' = Step("refresh_begin", 0, file.pos, "none", 0, TRUE)
    /\ faults' = IF last'.fault = "none" THEN faults ELSE faults + 1
    /\ UNCHANGED <<file, term, output, sigwinch_state, term_is_in_loop, keypress, resize_failed>>
    /\ errors_queue' = QueuedAll(errors_queue, LoopMessages("refresh", last'.fault))
    /\ UNCHANGED <<term_is_init, env, written>>

\* term_screen_prepare_rows: one pass of the row loop
PrepareRow ==
    /\ pc = "rows"
    /\ y < term.screen_rows
    /\ \E fault \in (IF faults < MaxFaults THEN RowFaults ELSE {"none"}) :
         \E p \in {prepare_row(file, term, output, y, bytes, fault)} :
             /\ file' = p.file
             /\ y' = IF p.ret = 1 THEN 0 ELSE p.y
             /\ bytes' = IF p.ret = 1 THEN 0 ELSE p.bytes
             /\ pc' = IF p.ret = 1 THEN "refresh_end" ELSE "rows"
             /\ ab' = IF p.torn THEN "torn" ELSE ab
             /\ errors_queue' = IF p.ret = 1
                                THEN Queued(errors_queue, "ERROR: Function ab_append() failed!")
                                ELSE errors_queue
             /\ last' = Step("prepare_row", p.bytes - bytes, RefreshPos0, fault, 0, p.ret = 0)
    /\ faults' = IF last'.fault = "none" THEN faults ELSE faults + 1
    /\ UNCHANGED <<term, output, sigwinch_state, term_is_in_loop, keypress, ret, resize_failed>>
    /\ UNCHANGED <<term_is_init, env, written>>

\* term_screen_prepare_rows: the rewinding move after the loop
PrepareRewind ==
    /\ pc = "rows"
    /\ y >= term.screen_rows
    /\ \E p \in {prepare_rewind(file, bytes)} :
           /\ file' = p.file
           /\ pc' = "refresh_end"
           /\ y' = 0
           /\ bytes' = 0
           /\ errors_queue' = IF p.ret # 0
                              THEN Queued(errors_queue, "ERROR: Couldn't save output!")
                              ELSE errors_queue
           /\ last' = Step("prepare_rewind", -1 * bytes, RefreshPos0, "none", 0, p.ret = 0)
    /\ UNCHANGED <<term, output, sigwinch_state, term_is_in_loop, keypress, ret, faults,
                   ab, resize_failed>>
    /\ UNCHANGED <<term_is_init, env, written>>

\* term_screen_refresh: the last ab_append and the write of the frame
RefreshEnd ==
    /\ pc = "refresh_end"
    /\ \E fault \in (IF faults < MaxFaults THEN {"none", "top2", "write"} ELSE {"none"}) :
         IF fault # "none"
         THEN /\ ret' = 2
              /\ pc' = "loop_end"
              /\ last' = Step("refresh_end", 0, RefreshPos0, fault, 0, FALSE)
         ELSE /\ ret' = ret
              /\ pc' = "read_key"
              /\ last' = [Step("refresh_end", 0, RefreshPos0, "none", 1, TRUE)
                             EXCEPT !.frame = Frame(ab = "torn")]
    /\ ab' = "empty"
    /\ faults' = IF last'.fault = "none" THEN faults ELSE faults + 1
    /\ UNCHANGED <<file, term, output, sigwinch_state, term_is_in_loop, keypress, y, bytes,
                   resize_failed>>
    /\ errors_queue' = QueuedAll(errors_queue, LoopMessages("refresh", last'.fault))
    /\ UNCHANGED <<term_is_init, env, written>>

\* term_read_key: read() returns 0 bytes (VTIME expired) or EAGAIN; the while loop goes on
ReadTimeout ==
    /\ pc = "read_key"
    /\ last' = Step("read_timeout", 0, file.pos, "none", 0, TRUE)
    /\ UNCHANGED <<file, term, output, sigwinch_state, term_is_in_loop, pc, keypress, ret, y, bytes, faults, ab, resize_failed>>
    /\ UNCHANGED life_vars

ReadError_ignored ==
    /\ pc = "read_key"
    /\ faults < MaxFaults
    /\ last' = Step("read_error", 0, file.pos, "read", 0, FALSE)
    /\ faults' = faults + 1
    /\ UNCHANGED <<file, term, output, sigwinch_state, term_is_in_loop, pc, keypress, ret, y, bytes, ab, resize_failed>>
    /\ UNCHANGED life_vars

\* term_read_key: read() fails with another errno; term_process_keypress returns ERROR
ReadError ==
    /\ pc = "read_key"
    /\ faults < MaxFaults
    /\ keypress' = "ERROR"
    /\ ret' = 1
    /\ pc' = "loop_end"
    /\ last' = Step("read_error", 0, file.pos, "read", 0, FALSE)
    /\ faults' = faults + 1
    /\ UNCHANGED <<file, term, output, sigwinch_state, term_is_in_loop, y, bytes, ab, resize_failed>>
    /\ errors_queue' = QueuedAll(errors_queue, LoopMessages("read_key", last'.fault))
    /\ UNCHANGED <<term_is_init, env, written>>

----------------------------------------------------------------------------
(* term_process_keypress, after term_read_key has returned the key *)

page_down_single(f, i, rows, row_len) ==
    file_move(f, (rows - i) * row_len)

\* case 'd': for (i = 0; i < term.screen_rows; i++) file_move(row_len)
RECURSIVE page_down(_, _, _, _)
page_down(f, i, rows, row_len) ==
    IF i < rows
    THEN LET m == file_move(f, row_len)
         IN  IF m.ret # 0 THEN m ELSE page_down(m.file, i + 1, rows, row_len)
    ELSE [ret |-> 0, file |-> f]

\* the file_move calls of the keys 'w', 's', 'a', 'd'
key_move(f, t, row_len, key) ==
    CASE key = KEY_UP   -> file_move(f, -1 * row_len)
      [] key = KEY_DOWN -> file_move(f, row_len)
      [] key = KEY_PGUP -> file_move(f, -1 * t.screen_rows * row_len)
      [] key = KEY_PGDN -> page_down(f, 0, t.screen_rows, row_len)

\* the output a mode key asks for
KeyOutput(key) ==
    CASE key = KEY_HEX   -> FORMHEX
      [] key = KEY_FCHAR -> FORMCHAR
      [] key = KEY_CHAR  -> CHAR

term_process_keypress_other_quits(f, t, o, key) ==
    LET row_len == o[t.active_output].row_len
        same    == [keypress |-> "IGNORE", file |-> f, term |-> t, output |-> o]
    IN  CASE key = KEY_QUIT -> [same EXCEPT !.keypress = "QUIT"]
          [] key \in {KEY_UP, KEY_DOWN, KEY_PGUP, KEY_PGDN} ->
               LET m == key_move(f, t, row_len, key)
               IN  [keypress |-> IF m.ret # 0 THEN "ERROR" ELSE "ACT",
                    file |-> m.file, term |-> t, output |-> o]
          [] key \in {KEY_HEX, KEY_FCHAR, KEY_CHAR} ->
               IF t.active_output = KeyOutput(key)
               THEN same
               ELSE LET g == term_output_change(f, t, o, KeyOutput(key))
                    IN  [keypress |-> IF g.ret # 0 THEN "ERROR" ELSE "ACT",
                         file |-> g.file, term |-> g.term, output |-> g.output]
          [] OTHER -> [same EXCEPT !.keypress = "QUIT"]

term_process_keypress_nav_ignore(f, t, o, key) ==
    LET row_len == o[t.active_output].row_len
        same    == [keypress |-> "IGNORE", file |-> f, term |-> t, output |-> o]
    IN  CASE key = KEY_QUIT -> [same EXCEPT !.keypress = "QUIT"]
          [] key \in {KEY_UP, KEY_DOWN, KEY_PGUP, KEY_PGDN} ->
               LET m == key_move(f, t, row_len, key)
               IN  [keypress |-> IF m.file = f THEN "IGNORE" ELSE "ACT",
                    file |-> m.file, term |-> t, output |-> o]
          [] key \in {KEY_HEX, KEY_FCHAR, KEY_CHAR} ->
               IF t.active_output = KeyOutput(key)
               THEN same
               ELSE LET g == term_output_change(f, t, o, KeyOutput(key))
                    IN  [keypress |-> IF g.ret # 0 THEN "ERROR" ELSE "ACT",
                         file |-> g.file, term |-> g.term, output |-> g.output]
          [] OTHER -> same

term_process_keypress_ignore_saves(f, t, o, key) ==
    LET row_len == o[t.active_output].row_len
        same    == [keypress |-> "IGNORE", file |-> f, term |-> t, output |-> o]
    IN  CASE key = KEY_QUIT -> [same EXCEPT !.keypress = "QUIT"]
          [] key \in {KEY_UP, KEY_DOWN, KEY_PGUP, KEY_PGDN} ->
               LET m == key_move(f, t, row_len, key)
               IN  [keypress |-> IF m.ret # 0 THEN "ERROR" ELSE "ACT",
                    file |-> m.file, term |-> t, output |-> o]
          [] key \in {KEY_HEX, KEY_FCHAR, KEY_CHAR} ->
               IF t.active_output = KeyOutput(key)
               THEN [same EXCEPT !.output = term_output_save(f, t, o).output]
               ELSE LET g == term_output_change(f, t, o, KeyOutput(key))
                    IN  [keypress |-> IF g.ret # 0 THEN "ERROR" ELSE "ACT",
                         file |-> g.file, term |-> g.term, output |-> g.output]
          [] OTHER -> same

term_process_keypress_stale_row_len(f, t, o, key) ==
    LET row_len == BlockedRowLen
        same    == [keypress |-> "IGNORE", file |-> f, term |-> t, output |-> o]
    IN  CASE key = KEY_QUIT -> [same EXCEPT !.keypress = "QUIT"]
          [] key \in {KEY_UP, KEY_DOWN, KEY_PGUP, KEY_PGDN} ->
               LET m == key_move(f, t, row_len, key)
               IN  [keypress |-> IF m.ret # 0 THEN "ERROR" ELSE "ACT",
                    file |-> m.file, term |-> t, output |-> o]
          [] key \in {KEY_HEX, KEY_FCHAR, KEY_CHAR} ->
               IF t.active_output = KeyOutput(key)
               THEN same
               ELSE LET g == term_output_change(f, t, o, KeyOutput(key))
                    IN  [keypress |-> IF g.ret # 0 THEN "ERROR" ELSE "ACT",
                         file |-> g.file, term |-> g.term, output |-> g.output]
          [] OTHER -> same

\* static int term_process_keypress(void), from the capture of row_len on
term_process_keypress(f, t, o, key) ==
    LET row_len == o[t.active_output].row_len
        same    == [keypress |-> "IGNORE", file |-> f, term |-> t, output |-> o]
    IN  CASE key = KEY_QUIT -> [same EXCEPT !.keypress = "QUIT"]
          [] key \in {KEY_UP, KEY_DOWN, KEY_PGUP, KEY_PGDN} ->
               LET m == key_move(f, t, row_len, key)
               IN  [keypress |-> IF m.ret # 0 THEN "ERROR" ELSE "ACT",
                    file |-> m.file, term |-> t, output |-> o]
          [] key \in {KEY_HEX, KEY_FCHAR, KEY_CHAR} ->
               IF t.active_output = KeyOutput(key)
               THEN same
               ELSE LET g == term_output_change(f, t, o, KeyOutput(key))
                    IN  [keypress |-> IF g.ret # 0 THEN "ERROR" ELSE "ACT",
                         file |-> g.file, term |-> g.term, output |-> g.output]
          [] OTHER -> same

\* term_read_key returns the key k; the rest of term_process_keypress and the
\* while condition of term_loop
ProcessKeypress ==
    /\ pc = "read_key"
    /\ \E k \in Keys :
       \E r \in {term_process_keypress(file, term, output, k)} :
           /\ file' = r.file
           /\ term' = r.term
           /\ output' = r.output
           /\ keypress' = r.keypress
           /\ ret' = IF r.keypress = "ERROR" THEN 1 ELSE ret
           /\ pc' = CASE r.keypress = "ERROR" -> "loop_end"
                      [] r.keypress = "QUIT"  -> "quit"
                      [] OTHER                -> "loop_top"
           /\ last' = [Step(k, output[term.active_output].row_len, file.pos, "none", 0,
                            r.keypress # "ERROR")
                          EXCEPT !.w0 = BlockedRowLen]
    /\ UNCHANGED <<sigwinch_state, term_is_in_loop, y, bytes, faults, ab, resize_failed>>
    /\ errors_queue' = QueuedAll(errors_queue, IF last'.ok THEN <<>> ELSE LoopMessages("keypress", "move"))
    /\ UNCHANGED <<term_is_init, env, written>>

ScreenClear_ignore_failure ==
    /\ pc = "quit"
    /\ \E wfail \in Failing :
         IF wfail
         THEN last' = Step("screen_clear", 0, file.pos, "write", 0, FALSE)
         ELSE last' = Step("screen_clear", 0, file.pos, "none", 1, TRUE)
    /\ ret' = ret
    /\ pc' = "loop_end"
    /\ faults' = IF last'.fault = "none" THEN faults ELSE faults + 1
    /\ UNCHANGED <<file, term, output, sigwinch_state, term_is_in_loop, keypress, y, bytes, ab, resize_failed>>
    /\ UNCHANGED life_vars

\* after the loop, keypress = QUIT: term_screen_clear
ScreenClear ==
    /\ pc = "quit"
    /\ \E wfail \in Failing :
         IF wfail
         THEN /\ ret' = 3
              /\ last' = Step("screen_clear", 0, file.pos, "write", 0, FALSE)
         ELSE /\ ret' = ret
              /\ last' = Step("screen_clear", 0, file.pos, "none", 1, TRUE)
    /\ pc' = "loop_end"
    /\ faults' = IF last'.fault = "none" THEN faults ELSE faults + 1
    /\ UNCHANGED <<file, term, output, sigwinch_state, term_is_in_loop, keypress, y, bytes, ab, resize_failed>>
    /\ errors_queue' = QueuedAll(errors_queue, LoopMessages("screen_clear", last'.fault))
    /\ UNCHANGED <<term_is_init, env, written>>

\* the cursor-show write, the reset of the in-loop flag and the return
LoopEnd ==
    /\ pc = "loop_end"
    /\ \E wfail \in Failing :
         IF wfail
         THEN /\ ret' = 5
              /\ term_is_in_loop' = term_is_in_loop
              /\ last' = Step("loop_end", 0, file.pos, "write", 0, FALSE)
         ELSE /\ ret' = ret
              /\ term_is_in_loop' = FALSE
              /\ last' = Step("loop_end", 0, file.pos, "none", 1, TRUE)
    /\ pc' = "returned"
    /\ faults' = IF last'.fault = "none" THEN faults ELSE faults + 1
    /\ UNCHANGED <<file, term, output, sigwinch_state, keypress, y, bytes, ab, resize_failed>>
    /\ errors_queue' = QueuedAll(errors_queue, LoopMessages("loop_end", last'.fault))
    /\ UNCHANGED <<term_is_init, env, written>>

----------------------------------------------------------------------------
(* The viewer *)

Next ==
    \/ TermInit
    \/ Sigwinch
    \/ LoopEnter
    \/ LoopTop
    \/ RefreshBegin
    \/ PrepareRow
    \/ PrepareRewind
    \/ RefreshEnd
    \/ ReadTimeout
    \/ ReadError
    \/ ProcessKeypress
    \/ ScreenClear
    \/ LoopEnd

Spec == Init /\ [][Next]_vars

----------------------------------------------------------------------------
(* The viewer when SIGWINCH is delivered only while the loop is blocked in      *)
(* term_read_key (and by the raise() of term_init)                              *)

SigwinchInRead ==
    /\ pc = "read_key"
    /\ Sigwinch

BlockedNext ==
    \/ TermInit
    \/ SigwinchInRead
    \/ LoopEnter
    \/ LoopTop
    \/ RefreshBegin
    \/ PrepareRow
    \/ PrepareRewind
    \/ RefreshEnd
    \/ ReadTimeout
    \/ ReadError
    \/ ProcessKeypress
    \/ ScreenClear
    \/ LoopEnd

BlockedSpec == Init /\ [][BlockedNext]_vars

----------------------------------------------------------------------------
(* file_move on its own: every length, every offset, every relative move *)

MoveInit ==
    /\ \E n \in 0..MaxLen : \E p \in 0..n : file = [state |-> "OPEN", len |-> n, pos |-> p]
    /\ term = [active_output |-> FORMHEX, screen_rows |-> 0, screen_cols |-> 0,
               initial_state |-> ZeroAttrs]
    /\ output = [id \in OutputIds |-> [pos |-> 0, row_len |-> 0]]
    /\ sigwinch_state = "OK"
    /\ term_is_in_loop = FALSE
    /\ term_is_init = FALSE
    /\ errors_queue = <<>>
    /\ env = Env(Cooked)
    /\ written = <<>>
    /\ pc = "file_move"
    /\ keypress = "ACT"
    /\ ret = 0
    /\ y = 0
    /\ bytes = 0
    /\ ab = "empty"
    /\ resize_failed = FALSE
    /\ faults = 0
    /\ last = [op |-> "start", arg |-> 0, pos0 |-> file.pos, out0 |-> FORMHEX,
               fault |-> "none", wrote |-> 0, frame |-> "none", ok |-> TRUE, w0 |-> 0]

FileMove ==
    /\ pc = "file_move"
    /\ \E m \in (-1 * MaxMove)..MaxMove :
         \E r \in {file_move(file, m)} :
             /\ file' = r.file
             /\ ret' = r.ret
             /\ last' = Step("file_move", m, file.pos, "none", 0, r.ret = 0)
    /\ UNCHANGED <<term, output, sigwinch_state, term_is_in_loop, pc, keypress, y, bytes, faults, ab, resize_failed>>
    /\ UNCHANGED life_vars

MoveNext == FileMove

MoveSpec == MoveInit /\ [][MoveNext]_vars

----------------------------------------------------------------------------
(* The two file_move of the repository, each applied to any open file *)

\* file_move of src/src/file.c, called with the cursor at an offset of the file
FileMoveUchar ==
    /\ pc = "file_move"
    /\ file_tell(file) <= file.len
    /\ \E m \in (-1 * MaxMove)..MaxMove :
         \E r \in {file_move_uchar(file, m)} :
             /\ file' = r.file
             /\ ret' = r.ret
             /\ last' = Step("file_move_uchar", m, file.pos, "none", 0, r.ret = 0)
    /\ UNCHANGED <<term, output, sigwinch_state, term_is_in_loop, pc, keypress, y, bytes, faults, ab, resize_failed>>
    /\ UNCHANGED life_vars

PolicyNext ==
    \/ FileMove
    \/ FileMoveUchar

PolicySpec == MoveInit /\ [][PolicyNext]_vars

----------------------------------------------------------------------------
(* The encoded reads on their own: every length, every offset, every count *)

\* largest count asked of one read
MaxCount == 5

ReadInit ==
    /\ \E n \in 0..MaxLen : \E p \in 0..n : file = [state |-> "OPEN", len |-> n, pos |-> p]
    /\ term = [active_output |-> FORMHEX, screen_rows |-> 0, screen_cols |-> 0,
               initial_state |-> ZeroAttrs]
    /\ output = [id \in OutputIds |-> [pos |-> 0, row_len |-> 0]]
    /\ sigwinch_state = "OK"
    /\ term_is_in_loop = FALSE
    /\ term_is_init = FALSE
    /\ errors_queue = <<>>
    /\ env = Env(Cooked)
    /\ written = <<>>
    /\ pc = "file_append"
    /\ keypress = "ACT"
    /\ ret = 0
    /\ y = 0
    /\ bytes = 0
    /\ ab = "empty"
    /\ resize_failed = FALSE
    /\ faults = 0
    /\ last = [op |-> "start", arg |-> 0, pos0 |-> file.pos, out0 |-> FORMHEX,
               fault |-> "none", wrote |-> 0, frame |-> "none", ok |-> TRUE, w0 |-> 0]

\* one call of file_append_formatted_hexs, file_append_formatted_chars or file_append_chars
FileAppend ==
    /\ pc = "file_append"
    /\ \E len \in 0..MaxCount :
       \E fault \in (IF faults < MaxFaults THEN ReadFaults ELSE {"none"}) :
       \E r \in {file_append(file, len, fault)} :
             /\ file' = r.file
             /\ ret' = r.ret
             /\ faults' = IF fault = "none" THEN faults ELSE faults + 1
             /\ last' = Step("file_append", len, file.pos, fault, 0, fault = "none")
    /\ UNCHANGED <<term, output, sigwinch_state, term_is_in_loop, pc, keypress, y, bytes, ab,
                   resize_failed>>
    /\ UNCHANGED life_vars

ReadNext == FileAppend

ReadSpec == ReadInit /\ [][ReadNext]_vars

----------------------------------------------------------------------------
(* file_append_formatted_hexs on its own: files of every single byte, and files of *)
(* up to MaxWin bytes drawn from SampleBytes                                       *)

\* longest file whose bytes are drawn from SampleBytes
MaxWin == 3

\* the ends of both digit ranges in both nibbles, and the bytes either side of the sign
SampleBytes == {0, 9, 10, 127, 128, 255}

RECURSIVE SeqsUpTo(_, _)
SeqsUpTo(S, n) ==
    IF n = 0 THEN {<<>>}
    ELSE LET shorter == SeqsUpTo(S, n - 1)
         IN  shorter \cup {Append(q, x) : q \in {t \in shorter : Len(t) = n - 1}, x \in S}

HexFiles == {<<b>> : b \in 0..255} \cup SeqsUpTo(SampleBytes, MaxWin)

HexInit ==
    /\ \E b \in HexFiles : \E p \in 0..Len(b) :
         file = [state |-> "OPEN", len |-> Len(b), pos |-> p, b |-> b]
    /\ term = [active_output |-> FORMHEX, screen_rows |-> 0, screen_cols |-> 0,
               initial_state |-> ZeroAttrs]
    /\ output = [id \in OutputIds |-> [pos |-> 0, row_len |-> 0]]
    /\ sigwinch_state = "OK"
    /\ term_is_in_loop = FALSE
    /\ term_is_init = FALSE
    /\ errors_queue = <<>>
    /\ env = Env(Cooked)
    /\ written = <<>>
    /\ pc = "file_append_formatted_hexs"
    /\ keypress = "ACT"
    /\ ret = 0
    /\ y = 0
    /\ bytes = 0
    /\ ab = "empty"
    /\ resize_failed = FALSE
    /\ faults = 0
    /\ last = [op |-> "start", arg |-> 0, pos0 |-> file.pos, out0 |-> FORMHEX,
               fault |-> "none", wrote |-> 0, frame |-> "none", ok |-> TRUE, w0 |-> 0]

\* one call of file_append_formatted_hexs on an empty ab
HexRead ==
    /\ pc = "file_append_formatted_hexs"
    /\ \E len \in 0..(MaxWin + 1), signed \in BOOLEAN :
       \E fault \in (IF faults < MaxFaults THEN ReadFaults ELSE {"none"}) :
       \E r \in {file_append_formatted_hexs(file, len, fault, signed)} :
             /\ file' = r.file
             /\ ret' = r.ret
             /\ written' = r.text
             /\ faults' = IF fault = "none" THEN faults ELSE faults + 1
             /\ last' = Step("file_append_formatted_hexs", len, file.pos, fault, 0,
                             fault = "none")
    /\ UNCHANGED <<term, output, sigwinch_state, term_is_in_loop, pc, keypress, y, bytes, ab,
                   resize_failed, term_is_init, errors_queue, env>>

HexNext == HexRead

HexSpec == HexInit /\ [][HexNext]_vars

----------------------------------------------------------------------------
(* The queue of messages on its own: any sequence of error_queue and error_flush *)

\* the messages queued: one that may repeat without limit and one that is told apart
Messages == {"ERROR: Function write() failed!", "ERROR: Function ioctl() failed!"}

\* most messages in the queue that differ from the first of Messages
MaxOther == 1

Others ==
    Cardinality({i \in 1..Len(errors_queue) :
                    errors_queue[i] # "ERROR: Function write() failed!"})

ErrInit ==
    /\ file = [state |-> "CLOSE", len |-> 0, pos |-> 0]
    /\ term = [active_output |-> "NULL", screen_rows |-> 0, screen_cols |-> 0,
               initial_state |-> ZeroAttrs]
    /\ output = [id \in OutputIds |-> [pos |-> 0, row_len |-> 0]]
    /\ sigwinch_state = "OK"
    /\ term_is_in_loop = FALSE
    /\ term_is_init = FALSE
    /\ errors_queue = <<>>
    /\ env = Env(Cooked)
    /\ written = <<>>
    /\ pc = "errors"
    /\ keypress = "ACT"
    /\ ret = 0
    /\ y = 0
    /\ bytes = 0
    /\ ab = "empty"
    /\ resize_failed = FALSE
    /\ faults = 0
    /\ last = [op |-> "start", arg |-> 0, pos0 |-> 0, out0 |-> "NULL",
               fault |-> "none", wrote |-> 0, frame |-> "none", ok |-> TRUE, w0 |-> 0]

\* one call of error_queue; when malloc fails the call ends the process
ErrorQueue ==
    /\ pc = "errors"
    /\ \E m \in Messages :
       \E mfail \in (IF faults < MaxFaults /\ Len(errors_queue) < RHD_ERRORS_QUEUE_MAX
                     THEN BOOLEAN ELSE {FALSE}) :
       \E r \in {error_queue(errors_queue, m, mfail)} :
             /\ m = "ERROR: Function write() failed!" \/ Others < MaxOther
             /\ errors_queue' = r.queue
             /\ pc' = IF r.exit THEN "exited" ELSE pc
             /\ faults' = IF mfail THEN faults + 1 ELSE faults
             /\ last' = Step("error_queue", Len(errors_queue), 0,
                             IF mfail THEN "malloc" ELSE "none", 0,
                             ~r.exit /\ r.queue # errors_queue)
    /\ UNCHANGED <<file, term, output, sigwinch_state, term_is_in_loop, keypress, ret, y,
                   bytes, ab, resize_failed, term_is_init, env, written>>

\* one call of error_flush
ErrorFlush ==
    /\ pc = "errors"
    /\ errors_queue' = error_flush(errors_queue).queue
    /\ last' = Step("error_flush", Len(errors_queue), 0, "none", 0, TRUE)
    /\ UNCHANGED <<file, term, output, sigwinch_state, term_is_in_loop, pc, keypress, ret, y,
                   bytes, ab, resize_failed, term_is_init, env, written, faults>>

ErrNext ==
    \/ ErrorQueue
    \/ ErrorFlush

ErrSpec == ErrInit /\ [][ErrNext]_vars

----------------------------------------------------------------------------
(* The text written: term_init, then term_loop with each refresh and each key   *)
(* taken as one step and no SIGWINCH delivered.  written is the text of the     *)
(* write() made last.                                                           *)

\* term_loop up to the cursor-hide write
FrameEnter ==
    /\ pc = "term_loop"
    /\ term_is_in_loop' = TRUE
    /\ keypress' = "ACT"
    /\ \E wfail \in Failing :
         IF wfail
         THEN /\ ret' = 5
              /\ pc' = "returned"
              /\ written' = written
              /\ last' = Step("frame_enter", 0, file.pos, "write", 0, FALSE)
         ELSE /\ ret' = 0
              /\ pc' = "frame"
              /\ written' = <<Ctl(RHD_TERM_VT100_CUR_HIDE)>>
              /\ last' = Step("frame_enter", 0, file.pos, "none", 1, TRUE)
    /\ faults' = IF last'.fault = "none" THEN faults ELSE faults + 1
    /\ errors_queue' = QueuedAll(errors_queue, LoopMessages("loop_enter", last'.fault))
    /\ UNCHANGED <<file, term, output, sigwinch_state, y, bytes, ab, resize_failed,
                   term_is_init, env>>

\* the failures one refresh of the loop may meet
FrameFaults(rows) ==
    RefreshFaults(rows)
    \cup {[at |-> "top2", y |-> 0, kind |-> "none"]}
    \cup {[at |-> "rows", y |-> yy, kind |-> "newline"] : yy \in 0..(rows - 1)}

\* one iteration of the loop with keypress ACT, up to the return of term_screen_refresh
FrameRefresh ==
    /\ pc = "frame"
    /\ keypress = "ACT"
    /\ \E rf \in (IF faults < MaxFaults THEN FrameFaults(term.screen_rows) ELSE {NoFault}) :
       \E r \in {term_screen_refresh(file, term, output, rf)} :
             /\ file' = r.file
             /\ written' = IF r.wrote = 1
                           THEN term_screen_refresh_text(file, term, output, rf)
                           ELSE written
             /\ ret' = IF r.ret # 0 THEN 2 ELSE ret
             /\ pc' = IF r.ret # 0 THEN "frame_end" ELSE "frame"
             /\ keypress' = IF r.ret # 0 THEN keypress ELSE "WAIT"
             /\ faults' = IF rf = NoFault THEN faults ELSE faults + 1
             /\ errors_queue' =
                    QueuedAll(errors_queue,
                              IF rf.at = "top2" THEN LoopMessages("refresh", "top2")
                              ELSE IF rf.at = "rows" /\ rf.kind = "newline"
                              THEN (IF rf.y < term.screen_rows - 1
                                    THEN <<"ERROR: Function ab_append() failed!">> ELSE <<>>)
                              ELSE RefreshMessages(rf)
                                     \o (IF r.ret # 0
                                         THEN <<"ERROR: Couldn't refresh screen!">> ELSE <<>>))
             /\ last' = [Step("frame_refresh", 0, file.pos, FaultClass(rf), r.wrote, r.ret = 0)
                            EXCEPT !.frame = r.frame]
    /\ UNCHANGED <<term, output, sigwinch_state, term_is_in_loop, y, bytes, ab, resize_failed,
                   term_is_init, env>>

\* the rest of the iteration: term_process_keypress with the key k
FrameKey ==
    /\ pc = "frame"
    /\ keypress = "WAIT"
    /\ \E k \in Keys :
       \E r \in {term_process_keypress(file, term, output, k)} :
           /\ file' = r.file
           /\ term' = r.term
           /\ output' = r.output
           /\ keypress' = IF r.keypress = "IGNORE" THEN "WAIT" ELSE r.keypress
           /\ ret' = IF r.keypress = "ERROR" THEN 1 ELSE ret
           /\ pc' = IF r.keypress \in {"ERROR", "QUIT"} THEN "frame_end" ELSE "frame"
           /\ errors_queue' = QueuedAll(errors_queue,
                                        IF r.keypress = "ERROR"
                                        THEN LoopMessages("keypress", "move") ELSE <<>>)
           /\ last' = [Step(k, output[term.active_output].row_len, file.pos, "none", 0,
                            r.keypress # "ERROR")
                          EXCEPT !.w0 = output[term.active_output].row_len]
    /\ UNCHANGED <<sigwinch_state, term_is_in_loop, y, bytes, faults, ab, resize_failed,
                   term_is_init, env, written>>

\* after the loop: term_screen_clear on QUIT, the cursor-show write, the return
FrameLeave ==
    /\ pc = "frame_end"
    /\ \E cfail \in (IF keypress = "QUIT" THEN Failing ELSE {FALSE}) :
       \E wfail \in (IF cfail THEN {FALSE} ELSE Failing) :
         /\ ret' = IF wfail THEN 5 ELSE IF cfail THEN 3 ELSE ret
         /\ term_is_in_loop' = IF wfail THEN term_is_in_loop ELSE FALSE
         /\ written' = IF ~wfail THEN <<Ctl(RHD_TERM_VT100_CUR_SHOW)>>
                       ELSE IF keypress = "QUIT" THEN <<Ctl(RHD_TERM_VT100_ERASE_SCREEN)>>
                       ELSE written
         /\ faults' = IF cfail \/ wfail THEN faults + 1 ELSE faults
         /\ errors_queue' = QueuedAll(errors_queue,
                                      IF cfail THEN LoopMessages("screen_clear", "write")
                                      ELSE IF wfail THEN LoopMessages("loop_end", "write")
                                      ELSE <<>>)
         /\ last' = Step("frame_leave", 0, file.pos,
                         IF cfail \/ wfail THEN "write" ELSE "none",
                         IF wfail THEN 0 ELSE 1, ~cfail /\ ~wfail)
    /\ pc' = "returned"
    /\ UNCHANGED <<file, term, output, sigwinch_state, keypress, y, bytes, ab, resize_failed,
                   term_is_init, env>>

FrameNext ==
    \/ TermInit
    \/ FrameEnter
    \/ FrameRefresh
    \/ FrameKey
    \/ FrameLeave

FrameSpec == Init /\ [][FrameNext]_vars

----------------------------------------------------------------------------
(* The life cycle of the process: term_init, term_loop, term_disable_raw_mode, *)
(* exit() and the functions registered with atexit().  term_loop is taken as   *)
(* one step here: neither the loop nor the handler assigns term_is_init, the   *)
(* terminal's attributes, file.state or the list of registered functions.      *)

LifeInit ==
    /\ file = [state |-> "CLOSE", len |-> 0, pos |-> 0]
    /\ term = [active_output |-> "NULL", screen_rows |-> 0, screen_cols |-> 0,
               initial_state |-> ZeroAttrs]
    /\ output = [id \in OutputIds |-> [pos |-> 0, row_len |-> 0]]
    /\ sigwinch_state = "OK"
    /\ term_is_in_loop = FALSE
    /\ term_is_init = FALSE
    /\ errors_queue = <<>>
    /\ \E a \in TtyInit : env = Env(a)
    /\ written = <<>>
    /\ pc = "term_init"
    /\ keypress = "ACT"
    /\ ret = 0
    /\ y = 0
    /\ bytes = 0
    /\ ab = "empty"
    /\ resize_failed = FALSE
    /\ faults = 0
    /\ last = [op |-> "start", arg |-> 0, pos0 |-> 0, out0 |-> "NULL",
               fault |-> "none", wrote |-> 0, frame |-> "none", ok |-> TRUE, w0 |-> 0]

\* where main has control between two calls of the interface
MainPcs == {"term_loop", "returned"}

\* most calls of term_init main makes on an initialised terminal
MaxAgain == 2

\* the calls of term_init made on an initialised terminal whose warning is in the queue
Again ==
    Cardinality({i \in 1..Len(errors_queue) :
                    errors_queue[i] = "WARNING: Terminal is already initialized!"})

TermInitAgain_reinit ==
    /\ pc \in MainPcs
    /\ term_is_init
    /\ Again < MaxAgain
    /\ \E n \in FileLens, ws \in WinSizesLeft, ub \in UbOutcomes :
       \E r \in {term_init(FALSE, file, term, output, sigwinch_state, term_is_in_loop,
                           errors_queue, env, n, ws, ub, "none")} :
             /\ ~r.trap
             /\ file' = r.file
             /\ term' = r.term
             /\ output' = r.output
             /\ sigwinch_state' = r.sigwinch_state
             /\ term_is_init' = r.init
             /\ errors_queue' = r.queue
             /\ env' = r.env
             /\ ret' = r.ret
             /\ last' = Step("term_init_again", 0, file.pos, "none", r.wrote, r.ret = 0)
    /\ UNCHANGED <<term_is_in_loop, pc, keypress, y, bytes, ab, resize_failed, written, faults>>

\* main calls term_init while the terminal is initialised
TermInitAgain ==
    /\ pc \in MainPcs
    /\ term_is_init
    /\ Again < MaxAgain
    /\ \E n \in FileLens, ws \in WinSizesLeft, ub \in UbOutcomes :
       \E r \in {term_init(term_is_init, file, term, output, sigwinch_state, term_is_in_loop,
                           errors_queue, env, n, ws, ub, "none")} :
             /\ ~r.trap
             /\ file' = r.file
             /\ term' = r.term
             /\ output' = r.output
             /\ sigwinch_state' = r.sigwinch_state
             /\ term_is_init' = r.init
             /\ errors_queue' = r.queue
             /\ env' = r.env
             /\ ret' = r.ret
             /\ last' = Step("term_init_again", 0, file.pos, "none", r.wrote, r.ret = 0)
    /\ UNCHANGED <<term_is_in_loop, pc, keypress, y, bytes, ab, resize_failed, written, faults>>

\* the results of term_loop, and the messages queued when term_loop returns each
LoopRets == 0..5
LoopQueued(r) ==
    CASE r = 0 -> {<<>>}
      [] r = 1 -> {LoopMessages("read_key", "read")}
      [] r = 2 -> {LoopMessages("refresh", "write"), LoopMessages("refresh", "top1")}
      [] r = 3 -> {LoopMessages("screen_clear", "write")}
      [] r = 4 -> {HandlerMessages([ok |-> FALSE, row |-> 0, col |-> 0], TRUE, NoFault)
                     \o LoopMessages("loop_top", "sigwinch")}
      [] r = 5 -> {LoopMessages("loop_end", "write")}

\* term_loop runs and returns
TermLoopReturns ==
    /\ pc = "term_loop"
    /\ \E r \in LoopRets : \E ms \in LoopQueued(r) :
         /\ ret' = r
         /\ last' = Step("term_loop", 0, file.pos, "none", 0, r = 0)
         /\ errors_queue' = QueuedAll(errors_queue, ms)
    /\ pc' = "returned"
    /\ UNCHANGED <<file, term, output, sigwinch_state, term_is_in_loop, keypress, y, bytes,
                   ab, resize_failed, faults>>
    /\ UNCHANGED <<term_is_init, env, written>>

\* the process is killed inside term_loop by the trap of a handler invocation
TermLoopKilled ==
    /\ pc = "term_loop"
    /\ pc' = "crashed"
    /\ last' = Step("term_loop", 0, file.pos, "trap", 0, FALSE)
    /\ UNCHANGED <<file, term, output, sigwinch_state, term_is_in_loop, keypress, ret, y,
                   bytes, ab, resize_failed, faults>>
    /\ UNCHANGED life_vars

\* whether a call that may fail is reached with these failures requested
RestoreReached == term_is_init
CloseReached(tfail) == term_is_init /\ ~tfail /\ file.state = "OPEN"

DisableRawMode_keeps_raw ==
    /\ pc \in MainPcs
    /\ \E r \in {term_disable_raw_mode(term_is_init, file, term, errors_queue, env,
                                       FALSE, FALSE)} :
             /\ file' = r.file
             /\ term_is_init' = r.init
             /\ errors_queue' = r.queue
             /\ env' = [r.env EXCEPT !.tty = env.tty]
             /\ ret' = r.ret
             /\ last' = Step("term_disable_raw_mode", 0, file.pos, "none", 0, r.ret = 0)
    /\ UNCHANGED <<term, output, sigwinch_state, term_is_in_loop, pc, keypress, y, bytes,
                   ab, resize_failed, written, faults>>

\* main calls term_disable_raw_mode
DisableRawMode ==
    /\ pc \in MainPcs
    /\ \E tfail \in (IF faults < MaxFaults /\ RestoreReached THEN BOOLEAN ELSE {FALSE}) :
       \E cfail \in (IF faults < MaxFaults /\ CloseReached(tfail) THEN BOOLEAN ELSE {FALSE}) :
       \E r \in {term_disable_raw_mode(term_is_init, file, term, errors_queue, env,
                                       tfail, cfail)} :
             /\ file' = r.file
             /\ term_is_init' = r.init
             /\ errors_queue' = r.queue
             /\ env' = r.env
             /\ ret' = r.ret
             /\ faults' = IF tfail \/ cfail THEN faults + 1 ELSE faults
             /\ last' = Step("term_disable_raw_mode", 0, file.pos,
                             IF tfail THEN "tcsetattr" ELSE IF cfail THEN "fclose" ELSE "none",
                             0, r.ret = 0)
    /\ UNCHANGED <<term, output, sigwinch_state, term_is_in_loop, pc, keypress, y, bytes,
                   ab, resize_failed, written>>

\* main calls exit(), after term_init has failed or whenever it has control
Exit ==
    /\ pc \in MainPcs \cup {"exited"}
    /\ pc' = "atexit"
    /\ last' = Step("exit", 0, file.pos, "none", 0, TRUE)
    /\ UNCHANGED <<file, term, output, sigwinch_state, term_is_in_loop, keypress, ret, y,
                   bytes, ab, resize_failed, faults>>
    /\ UNCHANGED life_vars

\* the function exit() runs next: the one registered last among those not run yet
NextAtExit ==
    IF env.ran < Len(env.atexit) THEN env.atexit[Len(env.atexit) - env.ran] ELSE "none"

AtExitTerm_skip ==
    /\ pc = "atexit"
    /\ NextAtExit = "term"
    /\ env' = [env EXCEPT !.ran = @ + 1]
    /\ last' = Step("at_exit_term", 0, file.pos, "none", 0, TRUE)
    /\ UNCHANGED <<file, term_is_init, errors_queue, faults>>
    /\ UNCHANGED <<term, output, sigwinch_state, term_is_in_loop, pc, keypress, ret, y,
                   bytes, ab, resize_failed, written>>

\* exit() runs the at_exit_callback of raw_terminal.c
AtExitTerm ==
    /\ pc = "atexit"
    /\ NextAtExit = "term"
    /\ \E tfail \in (IF faults < MaxFaults /\ RestoreReached THEN BOOLEAN ELSE {FALSE}) :
       \E cfail \in (IF faults < MaxFaults /\ CloseReached(tfail) THEN BOOLEAN ELSE {FALSE}) :
       \E r \in {term_at_exit_callback(term_is_init, file, term, errors_queue, env,
                                       tfail, cfail)} :
             /\ file' = r.file
             /\ term_is_init' = r.init
             /\ errors_queue' = r.queue
             /\ env' = [r.env EXCEPT !.ran = @ + 1]
             /\ faults' = IF tfail \/ cfail THEN faults + 1 ELSE faults
             /\ last' = Step("at_exit_term", 0, file.pos,
                             IF tfail THEN "tcsetattr" ELSE IF cfail THEN "fclose" ELSE "none",
                             0, r.ret = 0)
    /\ UNCHANGED <<term, output, sigwinch_state, term_is_in_loop, pc, keypress, ret, y,
                   bytes, ab, resize_failed, written>>

AtExitFile_skip ==
    /\ pc = "atexit"
    /\ NextAtExit = "file"
    /\ env' = [env EXCEPT !.ran = @ + 1]
    /\ last' = Step("at_exit_file", 0, file.pos, "none", 0, TRUE)
    /\ UNCHANGED <<file, faults>>
    /\ UNCHANGED <<term, output, sigwinch_state, term_is_in_loop, pc, keypress, ret, y,
                   bytes, ab, resize_failed, term_is_init, errors_queue, written>>

\* exit() runs the at_exit_callback of the file module
AtExitFile ==
    /\ pc = "atexit"
    /\ NextAtExit = "file"
    /\ \E cfail \in (IF faults < MaxFaults /\ file.state = "OPEN" THEN BOOLEAN ELSE {FALSE}) :
       \E r \in {file_at_exit_callback(file, env, cfail)} :
             /\ file' = r.file
             /\ env' = [r.env EXCEPT !.ran = @ + 1]
             /\ faults' = IF cfail THEN faults + 1 ELSE faults
             /\ last' = Step("at_exit_file", 0, file.pos,
                             IF cfail THEN "fclose" ELSE "none", 0, r.ret = 0)
    /\ UNCHANGED <<term, output, sigwinch_state, term_is_in_loop, pc, keypress, ret, y,
                   bytes, ab, resize_failed, term_is_init, errors_queue, written>>

\* every registered function has run: the process ends
ProcessEnds ==
    /\ pc = "atexit"
    /\ NextAtExit = "none"
    /\ pc' = "done"
    /\ last' = Step("done", 0, file.pos, "none", 0, TRUE)
    /\ UNCHANGED <<file, term, output, sigwinch_state, term_is_in_loop, keypress, ret, y,
                   bytes, ab, resize_failed, faults>>
    /\ UNCHANGED life_vars

LifeNext ==
    \/ TermInit
    \/ TermInitAgain
    \/ TermLoopReturns
    \/ TermLoopKilled
    \/ DisableRawMode
    \/ Exit
    \/ AtExitTerm
    \/ AtExitFile
    \/ ProcessEnds

LifeSpec == LifeInit /\ [][LifeNext]_vars

----------------------------------------------------------------------------
(* Properties *)

\* the largest multiple of w that does not exceed p (0 is the only multiple of 0)
LargestMultipleUpTo(w, p) ==
    CHOOSE m \in 0..p :
        /\ IF w = 0 THEN m = 0 ELSE m % w = 0
        /\ \A k \in 0..p : (IF w = 0 THEN k = 0 ELSE k % w = 0) => k <= m

\* C1: once the file is open, 0 <= file_tell() <= file.len in every state, whatever
\* keys, mode switches, resizes (failed or not) and frame renders came before
C1_CursorInFile ==
    pc # "term_init" => (0 <= file_tell(file) /\ file_tell(file) <= file.len)

\* a page-up from a positive offset went below zero and reset the cursor to 0
C1_Witness ==
    /\ last.op = KEY_PGUP
    /\ last.pos0 > 0
    /\ last.pos0 - term.screen_rows * last.arg < 0
    /\ file_tell(file) = 0

\* C2 as stated: a relative move m with 0 <= offset + m <= total_length, landing on
\* total_length included, returns success and changes file_tell() by exactly m
C2_MoveWithinFile ==
    (last.op = "file_move" /\ 0 <= last.pos0 + last.arg /\ last.pos0 + last.arg <= file.len)
        => (ret = 0 /\ file_tell(file) = last.pos0 + last.arg)

\* C2 amended: a relative move m with 0 <= offset + m < total_length returns success
\* and changes file_tell() by exactly m; a move landing exactly on total_length
\* returns success and leaves file_tell() unchanged
C2_MoveBelowEnd ==
    /\ (last.op = "file_move" /\ 0 <= last.pos0 + last.arg /\ last.pos0 + last.arg < file.len)
           => (ret = 0 /\ file_tell(file) = last.pos0 + last.arg)
    /\ (last.op = "file_move" /\ last.pos0 + last.arg = file.len)
           => (ret = 0 /\ file_tell(file) = last.pos0)

\* a non-zero move that stayed below the end of the file
C2_Witness ==
    /\ last.op = "file_move"
    /\ last.arg # 0
    /\ 0 <= last.pos0 + last.arg
    /\ last.pos0 + last.arg < file.len
    /\ file_tell(file) = last.pos0 + last.arg

\* C3: a relative move m with offset + m > total_length returns success and leaves
\* file_tell() where it was
C3_MovePastEndDiscarded ==
    (last.op = "file_move" /\ last.pos0 + last.arg > file.len)
        => (ret = 0 /\ file_tell(file) = last.pos0)

\* a move from inside the file that would have passed its end
C3_Witness ==
    /\ last.op = "file_move"
    /\ last.pos0 < file.len
    /\ last.pos0 + last.arg > file.len
    /\ file_tell(file) = last.pos0

\* C4: a relative move m with offset + m < 0 returns success and file_tell() becomes 0
C4_MoveBelowStartResets ==
    (last.op = "file_move" /\ last.pos0 + last.arg < 0)
        => (ret = 0 /\ file_tell(file) = 0)

\* a move from a positive offset that would have gone below zero
C4_Witness ==
    /\ last.op = "file_move"
    /\ last.pos0 > 0
    /\ last.pos0 + last.arg < 0
    /\ file_tell(file) = 0

\* C5: file_tell() after a term_screen_refresh that returned 0, with no SIGWINCH
\* handled during it, equals file_tell() before it
C5_RefreshKeepsCursor ==
    (last.op = "refresh_end" /\ last.ok /\ last.pos0 >= 0)
        => file_tell(file) = last.pos0

\* C6 as stated: down-one-page with offset + rows * row_len > total_length leaves
\* file_tell() unchanged
C6_PageDownDiscardedWhole ==
    (last.op = KEY_PGDN /\ last.pos0 + term.screen_rows * last.arg > file.len)
        => file_tell(file) = last.pos0

\* C6 amended: down-one-page makes screen_rows successive moves of row_len, each one
\* discarded on its own when it would reach or pass total_length: file_tell()
\* advances by k * row_len for the largest k <= screen_rows that keeps it below
\* total_length (k = 0 when there is none)
C6_PageDownRowByRow ==
    last.op = KEY_PGDN =>
        \E k \in 0..term.screen_rows :
            /\ file_tell(file) = last.pos0 + k * last.arg
            /\ k > 0 => last.pos0 + k * last.arg < file.len
            /\ k < term.screen_rows => last.pos0 + (k + 1) * last.arg >= file.len

\* 10-byte file, 4 rows, row_len 4, offset 0: the page (16) does not fit, the cursor
\* stops at 8
C6_Witness ==
    /\ last.op = KEY_PGDN
    /\ file.len = 10
    /\ term.screen_rows = 4
    /\ last.arg = 4
    /\ last.pos0 = 0
    /\ file_tell(file) = 8

\* C7: a switch of the active output from FORMHEX to FORMCHAR or back leaves
\* file_tell() as it was, and afterwards the two outputs hold the same pos
C7_HexCharSwitchKeepsCursor ==
    [][ (/\ term.active_output \in {FORMHEX, FORMCHAR}
         /\ term'.active_output \in {FORMHEX, FORMCHAR}
         /\ term'.active_output # term.active_output)
        => (/\ file_tell(file') = file_tell(file)
            /\ output'[FORMHEX].pos = output'[FORMCHAR].pos) ]_vars

\* FORMCHAR was entered from FORMHEX at a positive offset while FORMCHAR's own
\* pos was taken at that very switch
C7_Witness ==
    /\ last.op = KEY_FCHAR
    /\ last.out0 = FORMHEX
    /\ term.active_output = FORMCHAR
    /\ last.pos0 > 0
    /\ file_tell(file) = last.pos0

\* C8: leaving CHAR saves its offset; while another output is active no step but a
\* resize changes CHAR's pos; switching back to CHAR puts the cursor on it; and
\* while CHAR is active no step but a resize changes the pos of FORMHEX and FORMCHAR
C8_CharPosIndependent ==
    [][ /\ (term.active_output = CHAR /\ term'.active_output # CHAR)
            => output'[CHAR].pos = file_tell(file)
        /\ (term.active_output \in {FORMHEX, FORMCHAR} /\ last'.op # "sigwinch")
            => output'[CHAR].pos = output[CHAR].pos
        /\ (term.active_output \in {FORMHEX, FORMCHAR} /\ term'.active_output = CHAR)
            => file_tell(file') = output[CHAR].pos
        /\ (term.active_output = CHAR /\ last'.op # "sigwinch")
            => (/\ output'[FORMHEX].pos = output[FORMHEX].pos
                /\ output'[FORMCHAR].pos = output[FORMCHAR].pos) ]_vars

\* CHAR was entered again and the cursor went back to CHAR's positive offset, away
\* from the offset of the output that was active
C8_Witness ==
    /\ last.op = KEY_CHAR
    /\ last.out0 \in {FORMHEX, FORMCHAR}
    /\ term.active_output = CHAR
    /\ output[CHAR].pos > 0
    /\ file_tell(file) = output[CHAR].pos
    /\ last.pos0 # file_tell(file)

\* the position an output has before a resize: the cursor for the active output and
\* the one sharing with it, its saved pos otherwise
PriorPos(id) ==
    IF id \in {term.active_output, Shared(term.active_output)}
    THEN file_tell(file) ELSE output[id].pos

\* C9: after a handler invocation that left sigwinch.state OK, every output's pos
\* is the largest multiple of its new row_len not above its prior position, and
\* file_tell() is the active output's pos
C9_ResizeRealigns ==
    [][ (last'.op = "sigwinch" /\ last'.ok)
        => (/\ \A id \in OutputIds :
                 output'[id].pos = LargestMultipleUpTo(output'[id].row_len, PriorPos(id))
            /\ file_tell(file') = output'[term'.active_output].pos) ]_vars

\* C10: a handler invocation that cannot obtain the window size sets
\* sigwinch.state to ERROR, leaves term, every output and the file cursor as they
\* were, and writes nothing
C10_FailedResizeTouchesNothing ==
    [][ (last'.op = "sigwinch" /\ last'.fault = "ioctl")
        => (/\ sigwinch_state' = "ERROR"
            /\ term' = term
            /\ output' = output
            /\ file' = file
            /\ last'.wrote = 0) ]_vars

\* the handler failed on the window size inside term_loop, where a successful one
\* would have drawn a frame
C10_Witness ==
    /\ last.op = "sigwinch"
    /\ last.fault = "ioctl"
    /\ term_is_in_loop
    /\ sigwinch_state = "ERROR"
    /\ file_tell(file) > 0

----------------------------------------------------------------------------
(* The event loop *)

NavKeys == {KEY_UP, KEY_DOWN, KEY_PGUP, KEY_PGDN}
ModeKeys == {KEY_HEX, KEY_FCHAR, KEY_CHAR}

\* the step in which term_process_keypress returns, having read the key last'.op
KeyStep == pc = "read_key" /\ pc' # "read_key" /\ last'.op \in Keys

\* C11: term_loop starts with keypress = ACT; the loop comes to block in term_read_key
\* either straight from a frame it has just written, which happens exactly when
\* keypress is ACT (first iteration or an Acting outcome), or without drawing, which
\* happens exactly when keypress is IGNORE; once keypress is QUIT or ERROR the loop
\* neither polls, draws nor reads again
C11_LoopStateMachine ==
    /\ [][(pc = "term_loop" /\ pc' = "loop_top") => keypress' = "ACT"]_vars
    /\ [][(pc # "read_key" /\ pc' = "read_key")
            => \/ keypress = "ACT" /\ last'.op = "refresh_end" /\ last'.wrote = 1
               \/ keypress = "IGNORE" /\ last'.op = "loop_top" /\ last'.wrote = 0]_vars
    /\ [](keypress \in {"QUIT", "ERROR"}
            => pc \notin {"loop_top", "refresh", "rows", "refresh_end", "read_key"})

\* the loop blocks for the next byte after an Ignoring outcome, having drawn nothing
C11_Witness ==
    /\ pc = "read_key"
    /\ keypress = "IGNORE"
    /\ last.op = "loop_top"

\* C12: a navigation key always has the outcome ACT, also when its move was discarded
\* at the end of the file or reset at its start, and the iteration that follows it
\* goes to the refresh when it passes the poll of sigwinch.state
C12_NavigationAlwaysActs ==
    /\ [][(KeyStep /\ last'.op \in NavKeys) => (keypress' = "ACT" /\ pc' = "loop_top")]_vars
    /\ [][(pc = "loop_top" /\ last.op \in NavKeys /\ last'.op = "loop_top" /\ last'.ok)
            => pc' = "refresh"]_vars

\* a down-one-row that was discarded at the end of the file, with the outcome ACT
C12_Witness ==
    /\ last.op = KEY_DOWN
    /\ last.arg > 0
    /\ last.pos0 + last.arg >= file.len
    /\ file_tell(file) = last.pos0
    /\ keypress = "ACT"
    /\ pc = "loop_top"

\* C13: a keypress with outcome IGNORE is a byte that is no command key or the mode
\* key of the active output, and it leaves the active output, every output's pos and
\* row_len, the terminal geometry and file_tell() as they were
C13_IgnoreChangesNothing ==
    [][(KeyStep /\ keypress' = "IGNORE")
        => /\ UNCHANGED <<file, term, output>>
           /\ \/ last'.op = KEY_OTHER
              \/ last'.op \in ModeKeys /\ KeyOutput(last'.op) = term.active_output]_vars

\* the mode key of the active output is ignored while the cursor is away from the
\* output's saved pos
C13_Witness ==
    /\ last.op = KEY_HEX
    /\ keypress = "IGNORE"
    /\ term.active_output = FORMHEX
    /\ file_tell(file) # output[FORMHEX].pos

\* C14 as stated: once the quit key is read the loop neither polls, draws nor reads
\* again, and term_loop returns 0
C14_QuitReturnsZero ==
    keypress = "QUIT"
        => /\ pc \in {"quit", "loop_end", "returned", "crashed"}
           /\ pc = "returned" => ret = 0

\* C14, amended: once the quit key is read the loop neither polls, draws nor reads
\* again; it calls term_screen_clear exactly once, whose single write is the
\* erase-entire-screen sequence, and term_loop returns 0 when that write and the
\* cursor-show write succeed, 3 when the erase write fails and the cursor-show write
\* succeeds, 5 when the cursor-show write fails
C14_QuitReturnsByWrites ==
    /\ [](keypress = "QUIT" => pc \in {"quit", "loop_end", "returned", "crashed"})
    /\ [](pc = "quit" => (keypress = "QUIT" /\ ret = 0))
    /\ [][(pc # "quit" /\ pc' = "quit") => (pc = "read_key" /\ last'.op = KEY_QUIT)]_vars
    /\ [][(pc = "quit" /\ pc' \notin {"quit", "crashed"})
            => /\ pc' = "loop_end"
               /\ last'.op = "screen_clear"
               /\ last'.wrote = IF last'.ok THEN 1 ELSE 0
               /\ ret' = IF last'.ok THEN 0 ELSE 3]_vars
    /\ [][(pc = "loop_end" /\ keypress = "QUIT" /\ pc' = "returned")
            => ret' = IF last'.ok THEN ret ELSE 5]_vars

\* term_loop has returned 0 after the quit key, its last write being the cursor-show
C14_Witness ==
    /\ pc = "returned"
    /\ keypress = "QUIT"
    /\ ret = 0
    /\ last.op = "loop_end"
    /\ last.wrote = 1

\* C15: term_loop returns 0 only with keypress = QUIT, which only the quit key
\* yields, and it returns without the quit key only after a failure of the
\* environment (ioctl, allocation, read, write)
C15_OnlyQuitEndsLoop ==
    /\ []((pc = "returned" /\ ret = 0) => keypress = "QUIT")
    /\ [][KeyStep => (keypress' = "QUIT" <=> last'.op = KEY_QUIT)]_vars
    /\ []((pc = "returned" /\ keypress # "QUIT") => (ret # 0 /\ faults > 0))

\* term_loop has returned 0 on the quit key after keys that moved the cursor
C15_Witness ==
    /\ pc = "returned"
    /\ ret = 0
    /\ keypress = "QUIT"
    /\ faults = 0
    /\ file_tell(file) > 0

\* C16: a read() failure other than a timeout makes keypress ERROR and ends the loop
\* with a non-zero ret, the loop drawing no frame and reading no key any more; a
\* read() that times out changes nothing: the program stays in term_read_key with
\* the same cursor, outputs, geometry and loop state
C16_ReadErrorEndsLoop ==
    /\ [][last'.op = "read_error" => (keypress' = "ERROR" /\ pc' = "loop_end" /\ ret' # 0)]_vars
    /\ [](keypress = "ERROR" => (pc \in {"loop_end", "returned", "crashed"} /\ ret # 0))
    /\ [][last'.op = "read_timeout"
            => (pc' = "read_key" /\ last'.wrote = 0
                /\ UNCHANGED <<file, term, output, sigwinch_state, term_is_in_loop, pc,
                               keypress, ret, y, bytes, ab>>)]_vars

\* term_loop has returned non-zero after a failed read()
C16_Witness ==
    /\ pc = "returned"
    /\ keypress = "ERROR"
    /\ ret # 0

\* C17: every iteration, the first included, starts with the poll of sigwinch.state:
\* the refresh and term_read_key are only reached through it, and when the state is
\* ERROR the loop ends there with ret = 4, without a frame or a read, and term_loop
\* returns non-zero
C17_PollBeforeDrawOrRead ==
    /\ [][(pc = "term_loop" /\ pc' # pc) => pc' \in {"loop_top", "returned", "crashed"}]_vars
    /\ [][(pc # "refresh" /\ pc' = "refresh") => (pc = "loop_top" /\ sigwinch_state = "OK")]_vars
    /\ [][(pc # "read_key" /\ pc' = "read_key")
            => \/ pc = "loop_top" /\ sigwinch_state = "OK"
               \/ pc = "refresh_end"]_vars
    /\ [][(pc = "loop_top" /\ sigwinch_state = "ERROR" /\ pc' \notin {"loop_top", "crashed"})
            => (pc' = "loop_end" /\ ret' = 4 /\ last'.wrote = 0)]_vars
    /\ [](ret = 4 => pc \in {"loop_end", "returned", "crashed"})
    /\ [][ret = 4 => ret' \in {4, 5}]_vars

\* the loop has ended at the poll, with ret = 4
C17_Witness ==
    /\ pc = "loop_end"
    /\ ret = 4
    /\ last.op = "loop_top"
    /\ ~last.ok

----------------------------------------------------------------------------
(* The handler and the loop *)

\* C18: term_loop never returns 0 once an invocation of the handler has failed while
\* term_loop was executing
C18_HandlerFailureEndsLoop ==
    (pc = "returned" /\ resize_failed) => ret # 0

\* C19: an invocation of the handler that leaves sigwinch.state OK writes a frame
\* exactly when the main program is inside term_loop, and the invocation that
\* raise() causes in term_init writes nothing
C19_HandlerDrawsOnlyInLoop ==
    /\ [][(last'.op = "sigwinch" /\ last'.ok)
            => (last'.wrote = 1 <=> pc \in LoopPcs)]_vars
    /\ [][last'.op = "term_init" => last'.wrote = 0]_vars

\* C20: a refresh calls write() at most once, a refresh that fails has written
\* nothing, and the frame a refresh writes is complete
C20_OneCompleteFrame ==
    last.op \in {"refresh_end", "sigwinch", "term_init"}
        => /\ last.wrote \in {0, 1}
           /\ ~last.ok => last.wrote = 0
           /\ last.wrote = 1 => last.frame = "complete"

----------------------------------------------------------------------------
(* The life cycle: raw mode, teardown, the file handle *)

\* a restore of the saved attributes has succeeded
Restored == \E i \in 1..Len(env.restore) : env.restore[i] = "ok"

\* file_open has opened the file in this process
Opened == \E i \in 1..Len(env.atexit) : env.atexit[i] = "file"

\* C21: term_init called while the terminal is initialised returns 0 and leaves the
\* saved snapshot, the terminal's attributes, the file with its cursor, the active
\* output and every output's position unchanged
C21_InitIsIdempotent ==
    [][(last'.op = "term_init_again" /\ term_is_init)
          => /\ ret' = 0
             /\ term_is_init'
             /\ term' = term
             /\ env' = env
             /\ file' = file
             /\ output' = output]_vars

\* term_init has been called again on a terminal in raw mode whose snapshot is still
\* the attributes the process started with
C21_Witness ==
    /\ last.op = "term_init_again"
    /\ term_is_init
    /\ IsRaw(env.tty)
    /\ term.initial_state = env.tty0
    /\ Len(errors_queue) > 0

\* C22: a term_disable_raw_mode that returns 0 on an initialised terminal leaves the
\* terminal with the attributes it had before term_init, and a term_disable_raw_mode
\* on a terminal that is not initialised returns 0 and calls nothing
C22_DisableRestoresSnapshot ==
    /\ [][(last'.op = "term_disable_raw_mode" /\ term_is_init /\ ret' = 0)
            => (env'.tty = env.tty0 /\ ~term_is_init')]_vars
    /\ [][(last'.op = "term_disable_raw_mode" /\ ~term_is_init)
            => (ret' = 0 /\ env' = env /\ file' = file)]_vars

\* raw mode has been enabled on a terminal whose echo was off and disabled again
C22_Witness ==
    /\ last.op = "term_disable_raw_mode"
    /\ last.ok
    /\ ~term_is_init
    /\ env.raw = 1
    /\ env.restore = <<"ok">>
    /\ env.tty = NoEcho

\* C23 as stated: the process never ends with the terminal in raw mode
C23_NeverEndsRaw ==
    pc = "done" => ~IsRaw(env.tty)

\* C23: when the process ends through exit() after raw mode was enabled, a restore of
\* the saved attributes has been attempted; the terminal has its first attributes if
\* one attempt succeeded and is still in raw mode if every attempt failed
C23_RestoreAttemptedAtExit ==
    (pc = "done" /\ env.raw > 0)
       => /\ env.restore # <<>>
          /\ Restored => env.tty = env.tty0
          /\ ~Restored => IsRaw(env.tty)

\* the explicit restore failed and the one made at exit succeeded
C23_Witness ==
    /\ pc = "done"
    /\ env.raw = 1
    /\ env.restore = <<"failed", "ok">>
    /\ env.tty = env.tty0

\* C24 as stated: after a term_init that failed at the snapshot or at applying the
\* attributes, a restore has been attempted by the time the process ends
C24_RestoreAfterFailedInit ==
    (pc = "done" /\ ret \in {6, 7}) => env.restore # <<>>

\* C24: a term_init whose tcgetattr or tcsetattr fails returns 6 or 7, leaves the
\* terminal's attributes as they were and the terminal not initialised, and no
\* restore is attempted then or at exit
C24_FailedInitChangesNothing ==
    /\ [][(last'.op = "term_init" /\ last'.fault \in {"tcgetattr", "tcsetattr"})
            => /\ ret' = (IF last'.fault = "tcgetattr" THEN 6 ELSE 7)
               /\ ~term_is_init'
               /\ env'.tty = env.tty
               /\ env'.restore = <<>>]_vars
    /\ []((pc = "done" /\ ret \in {6, 7})
            => (env.restore = <<>> /\ env.raw = 0 /\ env.tty = env.tty0))

\* the process has ended after tcsetattr failed in term_init
C24_Witness ==
    /\ pc = "done"
    /\ ret = 7
    /\ term.initial_state = env.tty0
    /\ env.tty = env.tty0
    /\ env.restore = <<>>
    /\ env.ran = 2

\* C25 as stated: on every exit path with the file opened, both the restore of the
\* terminal and the close of the file have been attempted
C25_BothAttemptedOnEveryExit ==
    (pc = "done" /\ Opened) => (env.restore # <<>> /\ env.fclose > 0)

\* C25: when the process ends through exit(), the restore of the terminal has been
\* attempted if raw mode was enabled and the close of the file has been attempted if
\* the file was opened, whichever of the two failed
C25_TeardownIndependent ==
    pc = "done"
       => /\ env.raw > 0 => env.restore # <<>>
          /\ Opened => env.fclose > 0

\* the restore failed in the function run at exit and the file was closed all the same
C25_Witness ==
    /\ pc = "done"
    /\ env.restore = <<"failed">>
    /\ env.fclose = 1
    /\ file.state = "CLOSE"
    /\ term_is_init

\* C26: fclose is called at most once on the handle of an opened file, and exactly
\* once by the time the process ends
C26_HandleClosedOnce ==
    /\ env.fclose <= 1
    /\ (pc = "done" /\ Opened) => env.fclose = 1

----------------------------------------------------------------------------
(* The encoded reads *)

\* C27: every encoded read returns the number of bytes by which the cursor advanced,
\* which is min(count, total_length - offset)
C27_ReadReturnsAdvance ==
    [][last'.op = "file_append"
          => /\ ret' = file_tell(file') - file_tell(file)
             /\ ret' = Min(last'.arg, file.len - file_tell(file))]_vars

----------------------------------------------------------------------------
(* The hexadecimal text *)

\* the value of an uppercase hexadecimal digit, -1 for any other character
DigitValue(c) ==
    IF c \in 48..57 THEN c - 48
    ELSE IF c \in 65..70 THEN c - 55
    ELSE -1

\* a text of pairs of uppercase hexadecimal digits separated by single spaces, read
\* back into bytes, high digit first; <<-1>> for any other text
RECURSIVE HexDecode(_)
HexDecode(t) ==
    IF Len(t) = 0 THEN <<>>
    ELSE IF Len(t) = 1 \/ DigitValue(t[1]) = -1 \/ DigitValue(t[2]) = -1 THEN <<-1>>
    ELSE IF Len(t) = 2 THEN <<16 * DigitValue(t[1]) + DigitValue(t[2])>>
    ELSE IF Len(t) = 3 \/ t[3] # 32 THEN <<-1>>
    ELSE LET rest == HexDecode(SubSeq(t, 4, Len(t)))
         IN  IF rest = <<-1>> THEN <<-1>>
             ELSE <<16 * DigitValue(t[1]) + DigitValue(t[2])>> \o rest

\* C28: the text file_append_formatted_hexs appends for n bytes has 3n - 1 characters
\* (none for n = 0), is made of pairs of uppercase hexadecimal digits separated by
\* single spaces, and decodes to the n bytes read, whatever their values
C28_HexRoundTrip ==
    [][(last'.op = "file_append_formatted_hexs" /\ last'.fault = "none")
          => LET n == ret'
                 w == SubSeq(file.b, file.pos + 1, file.pos + n)
             IN  /\ n = Min(last'.arg, file.len - file.pos)
                 /\ Len(written') = (IF n = 0 THEN 0 ELSE 3 * n - 1)
                 /\ HexDecode(written') = w]_vars

\* three bytes have been read, the first of them 255 and the last 10: "FF .. 0A"
C28_Witness ==
    /\ last.op = "file_append_formatted_hexs"
    /\ ret = 3
    /\ Len(written) = 8
    /\ file.b[1] = 255
    /\ file.b[3] = 10
    /\ SubSeq(written, 1, 3) = <<70, 70, 32>>
    /\ SubSeq(written, 7, 8) = <<48, 65>>

----------------------------------------------------------------------------
(* The queue of messages *)

\* C29: the queue never holds more than RHD_ERRORS_QUEUE_MAX = 64 messages, and a
\* call of error_queue on a queue of 64 messages leaves the queue as it is
C29_QueueBounded ==
    /\ [](Len(errors_queue) <= 64)
    /\ [][(last'.op = "error_queue" /\ Len(errors_queue) = 64)
            => errors_queue' = errors_queue]_vars

\* error_queue has been called on a full queue, which holds both messages
C29_Witness ==
    /\ last.op = "error_queue"
    /\ last.arg = 64
    /\ ~last.ok
    /\ Len(errors_queue) = 64
    /\ Others = 1

----------------------------------------------------------------------------
(* The text of a frame *)

\* the pieces of a text that hide or show the cursor
CursorPieces(t) ==
    {i \in 1..Len(t) : t[i].piece \in {RHD_TERM_VT100_CUR_HIDE, RHD_TERM_VT100_CUR_SHOW}}

\* C30 as stated: every frame a refresh writes starts with cursor-hide and
\* cursor-to-top-left and ends with cursor-to-top-left and cursor-show
C30_FrameHidesAndShowsCursor ==
    [][(last'.op = "frame_refresh" /\ last'.wrote = 1)
          => /\ Len(written') >= 4
             /\ SubSeq(written', 1, 2)
                  = <<Ctl(RHD_TERM_VT100_CUR_HIDE), Ctl(RHD_TERM_VT100_CUR_TOP_LEFT)>>
             /\ SubSeq(written', Len(written') - 1, Len(written'))
                  = <<Ctl(RHD_TERM_VT100_CUR_TOP_LEFT), Ctl(RHD_TERM_VT100_CUR_SHOW)>>]_vars

\* C30: every frame a refresh writes starts with cursor-to-top-left, ends with
\* cursor-to-top-left and neither hides nor shows the cursor; cursor-hide is the one
\* write term_loop makes before its loop and cursor-show the one it makes before it
\* returns
C30_FrameBetweenTopLefts ==
    /\ [][(last'.op = "frame_refresh" /\ last'.wrote = 1)
            => /\ Len(written') >= 2
               /\ Head(written') = Ctl(RHD_TERM_VT100_CUR_TOP_LEFT)
               /\ written'[Len(written')] = Ctl(RHD_TERM_VT100_CUR_TOP_LEFT)
               /\ CursorPieces(written') = {}]_vars
    /\ [][(last'.op = "frame_enter" /\ last'.ok)
            => written' = <<Ctl(RHD_TERM_VT100_CUR_HIDE)>>]_vars
    /\ [][(last'.op = "frame_leave" /\ last'.wrote = 1)
            => written' = <<Ctl(RHD_TERM_VT100_CUR_SHOW)>>]_vars

\* a frame of four rows has been written for a file of ten bytes
C30_Witness ==
    /\ last.op = "frame_refresh"
    /\ last.wrote = 1
    /\ last.frame = "complete"
    /\ term.screen_rows = 4
    /\ file.len = 10
    /\ Len(written) > 8

----------------------------------------------------------------------------
(* The rows of a frame *)

\* what row i of a frame drawn at offset p should hold, for rows terminal rows of
\* width w and a file of len bytes: the bytes [p + i*w, min(p + (i+1)*w, len)) when
\* there are any, the erase-line, and the line break on every row but the last
RowPieces(p, i, rows, w, len) ==
    LET n == Min(p + (i + 1) * w, len) - (p + i * w)
    IN  (IF n > 0 THEN <<Encoded(p + i * w, n)>> ELSE <<>>)
            \o <<Ctl(RHD_TERM_VT100_ERASE_LINE)>>
            \o (IF i < rows - 1 THEN <<Ctl(CRLF)>> ELSE <<>>)

\* the rows i, i + 1, ... of that frame
RECURSIVE PagePieces(_, _, _, _, _)
PagePieces(p, i, rows, w, len) ==
    IF i < rows
    THEN RowPieces(p, i, rows, w, len) \o PagePieces(p, i + 1, rows, w, len)
    ELSE <<>>

\* how many pieces of the text t are the control sequence s
CountOf(t, s) == Cardinality({i \in 1..Len(t) : t[i] = Ctl(s)})

\* C31: a frame written by a refresh of the loop at offset p, with R terminal rows
\* and row width w, holds between its two cursor-to-top-left sequences the R rows,
\* row i encoding exactly the bytes [p + i*w, min(p + (i+1)*w, len)), each row
\* followed by the erase-line and every row but the last by a line break: R
\* erase-lines and R - 1 line breaks
C31_FrameRows ==
    (last.op = "frame_refresh" /\ last.wrote = 1)
        => /\ SubSeq(written, 2, Len(written) - 1)
                 = PagePieces(last.pos0, 0, term.screen_rows,
                              output[term.active_output].row_len, file.len)
           /\ CountOf(written, RHD_TERM_VT100_ERASE_LINE) = term.screen_rows
           /\ CountOf(written, CRLF) = term.screen_rows - 1

----------------------------------------------------------------------------
(* The handler and the keys *)

\* C32: a navigation key moves by the active output's row_len as it is when
\* term_read_key returns: after a resize handled while the loop was blocked in
\* term_read_key, the move that follows is the move by the new row_len, and the
\* row_len in force when the loop came to block plays no part in it
C32_MoveUsesRowLenAtReadReturn ==
    [][(KeyStep /\ last'.op \in NavKeys)
        => /\ last'.arg = output[term.active_output].row_len
           /\ file' = key_move(file, term, output[term.active_output].row_len, last'.op).file
      ]_vars

\* the loop came to block with row_len 4, the terminal was resized to row_len 5
\* during the read, and the down-one-row that followed moved by 5
C32_Witness ==
    /\ last.op = KEY_DOWN
    /\ last.w0 = 4
    /\ last.arg = 5
    /\ file_tell(file) = last.pos0 + 5

----------------------------------------------------------------------------
(* Failures while a frame is composed *)

\* C33: when term_screen_prepare_rows returns non-zero (an ab_append of a row or the
\* rewinding move failed), term_screen_refresh returns non-zero without writing the
\* frame, and term_loop leaves the loop with a non-zero ret
C33_RowsFailureFailsRefresh ==
    [][(/\ pc = "refresh_end"
        /\ last.op \in {"prepare_row", "prepare_rewind"}
        /\ ~last.ok
        /\ last'.op = "refresh_end")
        => (/\ ~last'.ok
            /\ last'.wrote = 0
            /\ pc' = "loop_end"
            /\ ret' # 0)]_vars

----------------------------------------------------------------------------
(* Row widths and the position of the cursor when the loop waits for a key *)

\* C34: an invocation of the handler that obtained a window size with at least one
\* row and one column completes, and leaves every output with a row_len of at
\* least 1
C34_RowLenAtLeastOne ==
    [][(/\ last'.op \in {"sigwinch", "term_init"}
        /\ last'.fault # "ioctl"
        /\ term'.screen_rows >= 1
        /\ term'.screen_cols >= 1)
        => (/\ pc' # "crashed"
            /\ \A id \in OutputIds : output'[id].row_len >= 1)]_vars

\* pos is a multiple of row_len (0 is the only multiple of 0)
Aligned(pos, row_len) == IF row_len = 0 THEN pos = 0 ELSE pos % row_len = 0

\* C35: whenever the loop is blocked in term_read_key, file_tell() is a multiple of
\* the active output's row_len, after any keys and any resizes handled while the loop
\* was blocked there
C35_AlignedWhenBlocked ==
    pc = "read_key" => Aligned(file_tell(file), output[term.active_output].row_len)

\* C36: when a SIGWINCH was handled while the main program was composing a frame,
\* and nothing failed, then once that frame is written file_tell() is the active
\* output's pos, and it is a multiple of the active output's new row_len (as the
\* start of the page realigned down to the new row_len would be)
C36_ResizeDuringFrameTolerated ==
    (last.op = "refresh_end" /\ last.ok /\ last.pos0 = -1 /\ faults = 0)
        => /\ file_tell(file) = output[term.active_output].pos
           /\ Aligned(file_tell(file), output[term.active_output].row_len)

\* C37: for a file that is not empty, whenever the loop is blocked in term_read_key
\* file_tell() is below file.len
C37_BelowEndWhenBlocked ==
    (pc = "read_key" /\ file.len > 0) => file_tell(file) < file.len

----------------------------------------------------------------------------
(* The flags shared by the loop and the handler *)

\* C38: term_is_in_loop is TRUE while term_loop is executing and FALSE once term_loop
\* has returned, whatever the path on which it returned
C38_InLoopFlagFollowsLoop ==
    /\ pc \in LoopPcs => term_is_in_loop
    /\ pc = "returned" => ~term_is_in_loop

\* C39: once an invocation of the handler has set sigwinch.state to ERROR, no later
\* invocation of the handler sets it back to OK
C39_ErrorStateSticks ==
    [][(sigwinch_state = "ERROR" /\ last'.op = "sigwinch") => sigwinch_state' = "ERROR"]_vars

----------------------------------------------------------------------------
(* The two file_move *)

\* C40 as stated: from every offset and for every relative move, file_move of
\* src/src/file.c leaves the cursor where the int-returning file_move leaves it
C40_MovesAgree ==
    [][last'.op = "file_move_uchar"
        => file_tell(file') = file_tell(file_move(file, last'.arg).file)]_vars

\* C40 amended: the two leave the cursor at the same offset exactly when the move
\* ends below file.len or is a move of 0 bytes (offset + m if that is not negative,
\* 0 otherwise); for any other move file_move of src/src/file.c puts the cursor on
\* offset + m, on or past the end of the file, and the int-returning file_move
\* leaves it at offset
C40_MovesAgreeBelowEnd ==
    [][last'.op = "file_move_uchar"
        => LET m     == last'.arg
               pos   == file_tell(file)
               other == file_tell(file_move(file, m).file)
           IN  /\ (pos + m < file.len \/ m = 0)
                    => (/\ file_tell(file') = other
                        /\ other = IF pos + m < 0 THEN 0 ELSE pos + m)
               /\ (pos + m >= file.len /\ m # 0)
                    => (/\ file_tell(file') = pos + m
                        /\ other = pos
                        /\ file_tell(file') # other) ]_vars

\* file_move of src/src/file.c has moved the cursor from inside the file past its end
C40_Witness ==
    /\ last.op = "file_move_uchar"
    /\ last.pos0 < file.len
    /\ last.pos0 + last.arg > file.len
    /\ file_tell(file) = last.pos0 + last.arg

====
